---------------------------- MODULE Spec2Model ----------------------------
(***************************************************************************)
(* Model of the WhatsApp order bot of src/checkout.js                      *)
(* (server-whatsapp-payments.js): the in-memory session store, the POST /  *)
(* message handler with its dispatcher, the COD and Prepaid branches of    *)
(* the delivery-details submission, the payments webhook, the order        *)
(* finalizer and the idle timer.                                           *)
(*                                                                         *)
(* Conventions.                                                            *)
(*  - JavaScript strings are TLA+ strings; TLC evaluates Len, SubSeq and   *)
(*    \o on them, so includes(), toLowerCase(), trim() and the regular     *)
(*    expressions are computed character by character.                     *)
(*  - JavaScript objects are functions whose domain is the set of fields   *)
(*    that have been assigned; reading a missing field gives the default   *)
(*    the code supplies with || or ?. .                                    *)
(*  - Money is a JavaScript number.  Prices are drawn from multiples of    *)
(*    1/8 rupee and all amounts stay far below 2^53, so every product and  *)
(*    sum of the code is exact in IEEE doubles and is modelled by integer  *)
(*    arithmetic on half-paise (1 paise = 2 units).  NaN is a sentinel.    *)
(*  - One action is one run of a handler from its first line to its        *)
(*    response (or to the uncaught exception that ends it); what the       *)
(*    gateways answer is chosen by \E.  The variable last records what the *)
(*    run did: the messages, gateway requests and rows it issued, in       *)
(*    order, and the HTTP status it answered with.                         *)
(***************************************************************************)
EXTENDS Integers, Sequences, FiniteSets, TLC

VARIABLES
  orderSessions,    \* orderId or phone => session object
  phoneToOrderIds,  \* phone => sequence of orderIds
  idleTimers,       \* phone => number of pending idle timeouts
  remindedUsers,    \* set of phones
  completedUsers,   \* set of phones
  nSubmissions,     \* accepted delivery-details submissions so far
  sendingReminder,  \* phone => timer callbacks waiting for their send to return
  last              \* what the last handler run did

vars == <<orderSessions, phoneToOrderIds, idleTimers, remindedUsers,
          completedUsers, nSubmissions, sendingReminder, last>>

---------------------------------------------------------------------------
(* Bounds of the model. *)

\* delivery-details submissions in one behaviour of SpecPay
MaxSubmissions == 2
\* delivery-details submissions in one behaviour of SpecSubmit
MaxQuotedSubmissions == 1
\* timer callbacks of one phone that wait for their send at the same time
MaxSending == 1

---------------------------------------------------------------------------
(* Strings. *)

CharAt(s, i) == SubSeq(s, i, i)

UpperCase == "ABCDEFGHIJKLMNOPQRSTUVWXYZ"
LowerCase == "abcdefghijklmnopqrstuvwxyz"
DigitChars == {"0", "1", "2", "3", "4", "5", "6", "7", "8", "9"}
Letters == {CharAt(UpperCase, i) : i \in 1..Len(UpperCase)}
             \cup {CharAt(LowerCase, i) : i \in 1..Len(LowerCase)}
\* \w of a JavaScript regular expression
WordChars == Letters \cup DigitChars \cup {"_"}

LowerChar(c) ==
  IF \E i \in 1..Len(UpperCase) : CharAt(UpperCase, i) = c
  THEN CharAt(LowerCase, CHOOSE i \in 1..Len(UpperCase) : CharAt(UpperCase, i) = c)
  ELSE c

RECURSIVE toLowerCase(_)
toLowerCase(s) ==
  IF Len(s) = 0 THEN "" ELSE LowerChar(Head(s)) \o toLowerCase(Tail(s))

RECURSIVE trimStart(_)
trimStart(s) ==
  IF Len(s) > 0 /\ Head(s) = " " THEN trimStart(Tail(s)) ELSE s

RECURSIVE trimEnd(_)
trimEnd(s) ==
  IF Len(s) > 0 /\ CharAt(s, Len(s)) = " "
  THEN trimEnd(SubSeq(s, 1, Len(s) - 1)) ELSE s

trim(s) == trimEnd(trimStart(s))

\* String.prototype.includes
includes(s, sub) ==
  \E i \in 0..(Len(s) - Len(sub)) : SubSeq(s, i + 1, i + Len(sub)) = sub

\* (phone || '').replace(/\D/g, "")
RECURSIVE normalizePhone(_)
normalizePhone(phone) ==
  IF Len(phone) = 0 THEN ""
  ELSE (IF Head(phone) \in DigitChars THEN Head(phone) ELSE "")
         \o normalizePhone(Tail(phone))

AwbLength == 14
\* /\d{14}/.test(s): the test without its two word boundaries
HasAwbUnbounded(s) ==
  \E i \in 1..(Len(s) - AwbLength + 1) :
     \A j \in i..(i + AwbLength - 1) : CharAt(s, j) \in DigitChars

\* /\b\d{14}\b/.test(s)
HasAwb(s) ==
  \E i \in 1..(Len(s) - AwbLength + 1) :
     /\ \A j \in i..(i + AwbLength - 1) : CharAt(s, j) \in DigitChars
     /\ (i = 1 \/ CharAt(s, i - 1) \notin WordChars)
     /\ (i + AwbLength > Len(s) \/ CharAt(s, i + AwbLength) \notin WordChars)

\* /[A-Z0-9._%+-]+@[A-Z0-9.-]+\.[A-Z]{2,}/i matches somewhere in s
EmailLocalChars == Letters \cup DigitChars \cup {".", "_", "%", "+", "-"}
EmailDomainChars == Letters \cup DigitChars \cup {".", "-"}
HasEmail(s) ==
  \E a \in 2..Len(s) :
     /\ CharAt(s, a) = "@"
     /\ CharAt(s, a - 1) \in EmailLocalChars
     /\ \E d \in (a + 2)..(Len(s) - 2) :
           /\ CharAt(s, d) = "."
           /\ \A j \in (a + 1)..(d - 1) : CharAt(s, j) \in EmailDomainChars
           /\ CharAt(s, d + 1) \in Letters
           /\ CharAt(s, d + 2) \in Letters

\* The places of s where the "@" of a match of
\* /[A-Z0-9._%+-]+@[A-Z0-9.-]+\.[A-Z]{2,}/i can stand
EmailAts(s) ==
  {a \in 2..Len(s) :
     /\ CharAt(s, a) = "@"
     /\ CharAt(s, a - 1) \in EmailLocalChars
     /\ \E d \in (a + 2)..(Len(s) - 2) :
           /\ CharAt(s, d) = "."
           /\ \A j \in (a + 1)..(d - 1) : CharAt(s, j) \in EmailDomainChars
           /\ CharAt(s, d + 1) \in Letters
           /\ CharAt(s, d + 2) \in Letters}

\* where the local part that ends before the "@" at a starts
EmailStart(s, a) ==
  CHOOSE i \in 1..(a - 1) :
    /\ \A j \in i..(a - 1) : CharAt(s, j) \in EmailLocalChars
    /\ (i = 1 \/ CharAt(s, i - 1) \notin EmailLocalChars)

\* the dots after the "@" at a that can be the "\." of the match
EmailDots(s, a) ==
  {d \in (a + 2)..(Len(s) - 2) :
     /\ CharAt(s, d) = "."
     /\ \A j \in (a + 1)..(d - 1) : CharAt(s, j) \in EmailDomainChars
     /\ CharAt(s, d + 1) \in Letters
     /\ CharAt(s, d + 2) \in Letters}

\* where the letters that follow the dot at d end
EmailEnd(s, d) ==
  CHOOSE e \in (d + 2)..Len(s) :
    /\ \A j \in (d + 1)..e : CharAt(s, j) \in Letters
    /\ (e = Len(s) \/ CharAt(s, e + 1) \notin Letters)

Min(S) == CHOOSE x \in S : \A y \in S : x <= y
Max(S) == CHOOSE x \in S : \A y \in S : x >= y

\* the match whose "@" stands at a: each repetition as long as it can be
EmailSpan(s, a) == SubSeq(s, EmailStart(s, a), EmailEnd(s, Max(EmailDots(s, a))))

\* msgBody.match(/[A-Z0-9._%+-]+@[A-Z0-9.-]+\.[A-Z]{2,}/i)[0] for a text that
\* HasEmail: the leftmost match
EmailMatch(s) == EmailSpan(s, Min(EmailAts(s)))

\* s.split(sep)[0]: the text before the first occurrence of sep
BeforeFirst(s, sep) ==
  IF includes(s, sep)
  THEN SubSeq(s, 1, Min({i \in 0..(Len(s) - Len(sep)) :
                           SubSeq(s, i + 1, i + Len(sep)) = sep}))
  ELSE s

\* name.replace(/\b(and|&|,)\b/gi, ''): "and" standing as a word, "&" and ","
\* standing between two word characters
RECURSIVE RemoveConnectors(_, _)
RemoveConnectors(s, prev) ==
  IF Len(s) = 0 THEN ""
  ELSE IF /\ Len(s) >= 3 /\ toLowerCase(SubSeq(s, 1, 3)) = "and"
          /\ prev \notin WordChars
          /\ (Len(s) = 3 \/ CharAt(s, 4) \notin WordChars)
       THEN RemoveConnectors(SubSeq(s, 4, Len(s)), "d")
  ELSE IF /\ Head(s) \in {"&", ","}
          /\ prev \in WordChars
          /\ Len(s) >= 2 /\ CharAt(s, 2) \in WordChars
       THEN RemoveConnectors(Tail(s), Head(s))
  ELSE Head(s) \o RemoveConnectors(Tail(s), Head(s))

UpperChar(c) ==
  IF \E i \in 1..Len(LowerCase) : CharAt(LowerCase, i) = c
  THEN CharAt(UpperCase, CHOOSE i \in 1..Len(LowerCase) : CharAt(LowerCase, i) = c)
  ELSE c

\* name.split(/\s+/).map(w => w.charAt(0).toUpperCase() + w.slice(1)).join(' ')
\* of a trimmed name
RECURSIVE TitleCase(_, _)
TitleCase(s, atStart) ==
  IF Len(s) = 0 THEN ""
  ELSE IF Head(s) = " "
       THEN (IF Len(s) >= 2 /\ CharAt(s, 2) = " " THEN "" ELSE " ")
              \o TitleCase(Tail(s), TRUE)
       ELSE (IF atStart THEN UpperChar(Head(s)) ELSE Head(s))
              \o TitleCase(Tail(s), FALSE)

\* The name of lines 1623-1633
ContactName(msgBody) ==
  TitleCase(trim(RemoveConnectors(trim(BeforeFirst(msgBody, EmailMatch(msgBody))), " ")),
            TRUE)

\* msgBody.split(/\s+/).length
RECURSIVE WordCount(_, _)
WordCount(s, inGap) ==
  IF Len(s) = 0 THEN 1
  ELSE IF Head(s) = " "
       THEN (IF inGap THEN 0 ELSE 1) + WordCount(Tail(s), TRUE)
       ELSE WordCount(Tail(s), FALSE)

---------------------------------------------------------------------------
(* JavaScript objects and numbers. *)

\* o.f || d
Get(o, f, d) == IF f \in DOMAIN o THEN o[f] ELSE d
\* o.f = v
Put(o, f, v) == [x \in DOMAIN o \cup {f} |-> IF x = f THEN v ELSE o[x]]

\* Math.round(x * 100) of a value that is not a number
NaN == -1
\* a + b on numbers
Add(a, b) == IF a = NaN \/ b = NaN THEN NaN ELSE a + b
\* a || 0 on numbers (NaN and 0 are falsy)
OrZero(a) == IF a = NaN THEN 0 ELSE a
\* n paise in half-paise units
Paise(n) == 2 * n
\* Math.round on a non-negative number of half-paise: ties go up
MathRound(x) == 2 * ((x + 1) \div 2)
\* r * 100 for r in eighths of a rupee: 12.5 paise each
Times100(r) == 25 * r

---------------------------------------------------------------------------
(* Static tables. *)

\* getProductWeight (grams)
getProductWeight ==
  [id \in {"43mypu8dye", "l722c63kq9", "kkii6r9uvh", "m519x5gv9s", "294l11gpcm",
           "ezg1lu6edm", "tzz72lpzz2", "esltl7pftq", "obdqyehm1w"} |->
     CASE id = "43mypu8dye" -> 120
       [] id = "l722c63kq9" -> 295
       [] id = "kkii6r9uvh" -> 495
       [] id = "m519x5gv9s" -> 500
       [] id = "294l11gpcm" -> 1000
       [] id = "ezg1lu6edm" -> 500
       [] id = "tzz72lpzz2" -> 1000
       [] id = "esltl7pftq" -> 100
       [] id = "obdqyehm1w" -> 1000]

\* intentBasedQA in insertion order; buttons: the entry has a non-empty intents list
intentBasedQA ==
  << [key |-> "buy now", buttons |-> TRUE],
     [key |-> "why people love us", buttons |-> TRUE],
     [key |-> "back 2 y ppl <3 us", buttons |-> TRUE],
     [key |-> "recipes", buttons |-> TRUE],
     [key |-> "farmer impact", buttons |-> TRUE],
     [key |-> "where we're from", buttons |-> TRUE],
     [key |-> "why it matters", buttons |-> TRUE],
     [key |-> "trace your products", buttons |-> TRUE],
     [key |-> "how it works", buttons |-> TRUE],
     [key |-> "shop & explore", buttons |-> TRUE],
     [key |-> "back2 shop & explore", buttons |-> TRUE],
     [key |-> "buy products", buttons |-> TRUE],
     [key |-> "customer reviews", buttons |-> TRUE],
     [key |-> "track your order", buttons |-> FALSE],
     [key |-> "our story", buttons |-> TRUE],
     [key |-> "buy later", buttons |-> FALSE] >>

NoIntent == [key |-> "", buttons |-> FALSE]

IntentIndices == 1..Len(intentBasedQA)
IntentOfKey(k) ==
  intentBasedQA[CHOOSE i \in IntentIndices : intentBasedQA[i].key = k]

\* findIntentBasedResponse: the matched entry, or NoIntent for null
findIntentBasedResponse(userMessage) ==
  LET normalizedMessage == trim(toLowerCase(userMessage))
      partial(i) == \/ includes(normalizedMessage, intentBasedQA[i].key)
                    \/ includes(intentBasedQA[i].key, normalizedMessage)
  IN  IF \E i \in IntentIndices : intentBasedQA[i].key = normalizedMessage
      THEN IntentOfKey(normalizedMessage)
      ELSE IF \E i \in IntentIndices : partial(i)
      THEN intentBasedQA[CHOOSE i \in IntentIndices :
                            partial(i) /\ \A j \in 1..(i - 1) : ~partial(j)]
      ELSE IF \/ includes(normalizedMessage, "trace")
              \/ includes(normalizedMessage, "track")
              \/ includes(normalizedMessage, "origin")
              \/ includes(normalizedMessage, "source")
      THEN IntentOfKey("trace your products")
      ELSE NoIntent

---------------------------------------------------------------------------
(* Inputs: what the messaging platform, the payment provider and the       *)
(* gateways can send.                                                      *)

\* r rupees in eighths of a rupee
Rupees(r) == 8 * r

\* msg.from of the two customers
RawPhones == {"917", "918"}

\* product_items of a catalog order: Scenario A's item, and an item whose
\* price in paise is not an integer (49.125 rupees)
ItemA == [product_retailer_id |-> "43mypu8dye", item_price |-> Rupees(100), quantity |-> 2]
ItemB == [product_retailer_id |-> "esltl7pftq", item_price |-> Rupees(49) + 1, quantity |-> 1]
OrderLists == { <<ItemA>>, <<ItemA, ItemB>>, <<ItemB, ItemA>> }

\* response_json of a delivery-details submission
CustomerDatas ==
  { [flow_token |-> t, payment_mode |-> m, name |-> "Asha", pincode |-> "249193"] :
      t \in {"flow_1"}, m \in {"Cash on Delivery", "Prepaid"} }
    \cup { [flow_token |-> "test_101", payment_mode |-> "Prepaid",
            name |-> "Asha", pincode |-> "249193"] }

\* what ShortUniqueId({length: 5, dictionary: 'number'}).randomUUID() can draw
UidSpace == {"00417", "93250"}

\* body of the rate-quote response:
\*   throw   the request fails            empty   an empty (falsy) body
\*   noelem  []                           nofield [{}]
\*   zero    [{total_amount: 0}]          num     [{total_amount: 50.00}]
\*   nan     [{total_amount: "N/A"}]
QuoteOutcomes == {"throw", "empty", "noelem", "nofield", "zero", "num", "nan"}
QuotedTotal == Rupees(50)

\* one quote for each way the finalizer reads it: the request fails, a
\* number, not a number
FinalizerQuotes == {"throw", "num", "nan"}

\* body of the shipment-creation response:
\*   success {success: true, ...}   rejected {success: false, ...}
\*   null    the JSON value null    throw    the request fails
CreateOutcomes == {"success", "rejected", "null", "throw"}

\* sending the order_details message
SendOutcomes == {"ok", "throw"}

\* what the finalizer's two shipping requests answer, as <<quote, creation>>:
\* every answer of each request with the other one answering well, and both
\* requests failing
FinalizerOutcomes ==
  {<<q, "success">> : q \in FinalizerQuotes}
    \cup {<<"num", c>> : c \in CreateOutcomes}
    \cup {<<"throw", "throw">>}

---------------------------------------------------------------------------
(* Outbound effects, as recorded in last. *)

Text(to, body) == [to |-> to, type |-> "text", body |-> body, arg |-> 0]
TextArg(to, body, arg) == [to |-> to, type |-> "text", body |-> body, arg |-> arg]
Interactive(to, kind, body) == [to |-> to, type |-> kind, body |-> body, arg |-> 0]

\* (x / 100).toFixed(2), in hundredths of a rupee: ties of the exact binary
\* value go to the larger candidate
toFixed2(x) == IF x = NaN THEN NaN ELSE (x + 1) \div 2

NoRun == [op |-> "none", case |-> "", resp |-> 0, msgs |-> <<>>, calls |-> <<>>,
          rows |-> <<>>, key |-> "", event |-> "", quote |-> "", create |-> "",
          send |-> "", via |-> "", finalizer |-> 0, contacts |-> <<>>, msg |-> <<>>,
          hook |-> <<>>, was |-> "", body |-> ""]

---------------------------------------------------------------------------
(* Delhivery helpers. *)

\* total_wgt of the COD branch: getProductWeight[id] * quantity, summed
RECURSIVE TotalWeight(_)
TotalWeight(items) ==
  IF items = <<>> THEN 0
  ELSE getProductWeight[Head(items).product_retailer_id] * Head(items).quantity
         + TotalWeight(Tail(items))

ChargesCall(pt, cgm, pin) == [api |-> "charges", pt |-> pt, cgm |-> cgm, pin |-> pin, total |-> 0]
CreateCall(mode, wgt, pin, total) ==
  [api |-> "create", pt |-> mode, cgm |-> wgt, pin |-> pin, total |-> total]

\* The COD branch's reading of the rate quote: shippingChargePaise and cod_error
CodQuote(q) ==
  CASE q = "throw"   -> [ship |-> 0, cod_error |-> FALSE]
    [] q = "empty"   -> [ship |-> 0, cod_error |-> TRUE]
    [] q = "noelem"  -> [ship |-> 0, cod_error |-> FALSE]
    [] q = "nofield" -> [ship |-> 0, cod_error |-> FALSE]
    [] q = "zero"    -> [ship |-> 0, cod_error |-> FALSE]
    [] q = "num"     -> [ship |-> MathRound(Times100(QuotedTotal)), cod_error |-> TRUE]
    [] q = "nan"     -> [ship |-> NaN, cod_error |-> TRUE]

\* The Prepaid reading of the rate quote (order_details and finalizer)
PrepaidQuote(q) ==
  CASE q = "num" -> MathRound(Times100(QuotedTotal))
    [] q = "nan" -> NaN
    [] OTHER     -> 0

---------------------------------------------------------------------------
(* Delivery-details submission (nfm_reply). *)

\* codChargePaise
codChargePaise == Paise(150 * 100)

\* String(Math.round(amount / 100)): whole rupees
RoundRupees(a) == IF a = NaN THEN NaN ELSE (a + 100) \div 200

\* the paymentMode test of the flow handler
IsCodMode(customerData) ==
  LET paymentMode == toLowerCase(Get(customerData, "payment_mode", ""))
  IN  paymentMode \in {"cod", "cash on delivery", "cash-on-delivery"}

\* The row the COD branch appends: 13 columns
CodRow(session, from, customerData, create) ==
  << "ts", Get(customerData, "name", ""), Get(customerData, "phone", from),
     Get(customerData, "email", ""), "", Get(customerData, "pincode", ""),
     session.productItems, "COD", "Pending", toFixed2(session.amount),
     toFixed2(session.shipping_charge), toFixed2(codChargePaise), create >>

\* The row the Prepaid branch appends: 14 columns
AwaitingRow(session, from, customerData) ==
  << "ts", Get(customerData, "name", ""), Get(customerData, "phone", from),
     Get(customerData, "email", ""), "", Get(customerData, "pincode", ""),
     session.productItems, "Prepaid", "Awaiting Payment", toFixed2(session.amount),
     "", "", "whatsapp_payment_config", session.orderId >>

\* The COD branch, from session.cod_error = true to its response.  A run that
\* an uncaught exception ends answers nothing: resp = 0.
CodBranch(session, from, customerData, q, c) ==
  LET cq == CodQuote(q)
      total_wgt == TotalWeight(session.productItems)
      pin == Get(customerData, "pincode", "")
      amount == Add(Add(OrZero(session.amount), codChargePaise), cq.ship)
      s1 == Put(Put(Put(Put(session, "cod_error", cq.cod_error), "amount", amount),
                    "payment_mode", "COD"), "shipping_charge", cq.ship)
      calls == << ChargesCall("COD", total_wgt, pin),
                  CreateCall("COD", total_wgt, pin, RoundRupees(amount)) >>
  IN  IF c \in {"throw", "null"}
      THEN [session |-> s1, msgs |-> <<>>, calls |-> calls, rows |-> <<>>, resp |-> 0]
      ELSE IF c = "success" /\ cq.cod_error
      THEN [session |-> s1,
            msgs |-> << TextArg(from, "cod_placed", toFixed2(amount)) >>,
            calls |-> calls,
            rows |-> << CodRow(s1, from, customerData, c) >>,
            resp |-> 200]
      ELSE [session |-> s1, msgs |-> << Text(from, "data_incorrect") >>,
            calls |-> calls, rows |-> <<>>, resp |-> 200]

\* total_wgt of sendWhatsAppOrderDetails and finalizePaidOrder
RECURSIVE TotalWeightOr(_)
TotalWeightOr(items) ==
  IF items = <<>> THEN 0
  ELSE Get(getProductWeight, Head(items).product_retailer_id, 0)
          * (IF Head(items).quantity = 0 THEN 1 ELSE Head(items).quantity)
         + TotalWeightOr(Tail(items))

\* The Prepaid branch with the "Awaiting Payment" row appended before the
\* payment prompt is sent, so also when sending it throws
PrepaidBranchRowFirst(session, from, customerData, q, od) ==
  LET s0 == Put(session, "payment_mode", "Prepaid")
      prod_cost == OrZero(Get(s0, "amount", 0))
      total_wgt == TotalWeightOr(Get(s0, "productItems", <<>>))
      pin == Get(customerData, "pincode", "")
      shippingChargePaise == PrepaidQuote(q)
      s1 == Put(s0, "shipping_charge", shippingChargePaise)
      totalAmountValue == Add(prod_cost, shippingChargePaise)
  IN  [session |-> s1,
       msgs |-> IF od = "ok"
                THEN << TextArg(from, "order_details", totalAmountValue),
                        Text(from, "review_and_pay") >>
                ELSE << Text(from, "could_not_initiate") >>,
       calls |-> << ChargesCall("Pre-paid", total_wgt, pin) >>,
       rows |-> << AwaitingRow(s1, from, customerData) >>,
       resp |-> 200]

\* The Prepaid branch with sendWhatsAppOrderDetails inlined
PrepaidBranch(session, from, customerData, q, od) ==
  LET s0 == Put(session, "payment_mode", "Prepaid")
      prod_cost == OrZero(Get(s0, "amount", 0))
      total_wgt == TotalWeightOr(Get(s0, "productItems", <<>>))
      pin == Get(customerData, "pincode", "")
      shippingChargePaise == PrepaidQuote(q)
      s1 == Put(s0, "shipping_charge", shippingChargePaise)
      totalAmountValue == Add(prod_cost, shippingChargePaise)
      calls == << ChargesCall("Pre-paid", total_wgt, pin) >>
  IN  IF od = "ok"
      THEN [session |-> s1,
            msgs |-> << TextArg(from, "order_details", totalAmountValue),
                        Text(from, "review_and_pay") >>,
            calls |-> calls,
            rows |-> << AwaitingRow(s1, from, customerData) >>,
            resp |-> 200]
      ELSE [session |-> s1, msgs |-> << Text(from, "could_not_initiate") >>,
            calls |-> calls, rows |-> <<>>, resp |-> 200]

\* orderId of a submission
OrderIdOf(uid) == "OUO-" \o uid

\* The new session seeded from the phone's latest session instead of its
\* pending selection
NewSessionFromLatest(orderId, from, customerData) ==
  LET ids == Get(phoneToOrderIds, from, <<>>)
      pending == IF ids = <<>> THEN Get(orderSessions, from, <<>>)
                 ELSE orderSessions[ids[Len(ids)]]
  IN  [orderId |-> orderId, phone |-> from, customer |-> customerData, step |-> 4,
       productItems |-> Get(pending, "productItems", <<>>),
       amount |-> OrZero(Get(pending, "amount", 0))]

\* The session object created at lines 1322-1329
NewSession(orderId, from, customerData) ==
  LET pending == Get(orderSessions, from, <<>>)
  IN  [orderId |-> orderId, phone |-> from, customer |-> customerData, step |-> 4,
       productItems |-> Get(pending, "productItems", <<>>),
       amount |-> OrZero(Get(pending, "amount", 0))]

---------------------------------------------------------------------------
(* Inbound messages. *)

NoData == [flow_token |-> "", payment_mode |-> "", name |-> "", pincode |-> ""]

TextMsg(from, body) ==
  [from |-> from, type |-> "text", itype |-> "", body |-> body, data |-> NoData, items |-> <<>>]
ButtonReply(from, title) ==
  [from |-> from, type |-> "interactive", itype |-> "button_reply", body |-> title,
   data |-> NoData, items |-> <<>>]
ListReply(from, title) ==
  [from |-> from, type |-> "interactive", itype |-> "list_reply", body |-> title,
   data |-> NoData, items |-> <<>>]
FlowMsg(from, customerData) ==
  [from |-> from, type |-> "interactive", itype |-> "nfm_reply", body |-> "",
   data |-> customerData, items |-> <<>>]
OrderMsg(from, items) ==
  [from |-> from, type |-> "order", itype |-> "", body |-> "", data |-> NoData, items |-> items]
ImageMsg(from) ==
  [from |-> from, type |-> "image", itype |-> "", body |-> "", data |-> NoData, items |-> <<>>]

\* msgBody as the dispatch chain sees it (lines 1206-1221 and 1509-1514)
MsgBody(msg) ==
  LET first ==
        CASE msg.type = "text" -> trim(msg.body)
          [] msg.type = "interactive" /\ msg.itype \in {"button_reply", "list_reply"}
               -> trim(msg.body)
          [] msg.type = "order" -> "order_received"
          [] msg.type = "button" -> trim(toLowerCase(msg.body))
          [] OTHER -> ""
  IN  IF msg.type = "interactive" /\ msg.itype = "button_reply"
      THEN trim(toLowerCase(msg.body))
      ELSE IF msg.type = "text" /\ msg.body # ""
      THEN trim(toLowerCase(msg.body))
      ELSE first

\* The chain with the reminder follow-up of a reminded phone tested first
DispatchFollowUpFirst(msg, followUp) ==
  LET msgBody == MsgBody(msg)
      lower == toLowerCase(msgBody)
  IN  IF followUp /\ msg.type # "order" THEN "reminder" ELSE
      CASE msgBody = "main menu" -> "menu"
        [] msgBody = "Main Menu" -> "menu"
        [] OTHER ->
      IF findIntentBasedResponse(msgBody) # NoIntent THEN "intent"
      ELSE IF HasAwb(msgBody) THEN "awb"
      ELSE IF msgBody \in {"hi", "hello", "hey"} THEN "greeting"
      ELSE IF includes(lower, "sourcing story") THEN "sourcing"
      ELSE IF includes(lower, "nutrition info") \/ includes(lower, "back 2 nutri info")
           THEN "nutrition"
      ELSE IF includes(lower, "view products") THEN "catalog"
      ELSE IF includes(lower, "have a query") THEN "query"
      ELSE IF includes(msgBody, "how are you") THEN "how_are_you"
      ELSE IF msgBody = "fine" THEN "fine"
      ELSE IF includes(msgBody, "thank you") \/ includes(msgBody, "thanks") THEN "thanks"
      ELSE IF \E w \in {"awesome", "amazing", "great"} : includes(msgBody, w) THEN "praise"
      ELSE IF msg.type = "order" \/ msgBody = "order_received" THEN "order"
      ELSE IF followUp THEN "reminder"
      ELSE "ai"

\* The branch of the if/else chain of lines 1524-1669 that runs; followUp is
\* remindedUsers.has(from) && !completedUsers.has(from)
Dispatch(msg, followUp) ==
  LET msgBody == MsgBody(msg)
      lower == toLowerCase(msgBody)
  IN  CASE msgBody = "main menu" -> "menu"
        [] msgBody = "Main Menu" -> "menu"
        [] OTHER ->
      IF findIntentBasedResponse(msgBody) # NoIntent THEN "intent"
      ELSE IF HasAwb(msgBody) THEN "awb"
      ELSE IF msgBody \in {"hi", "hello", "hey"} THEN "greeting"
      ELSE IF includes(lower, "sourcing story") THEN "sourcing"
      ELSE IF includes(lower, "nutrition info") \/ includes(lower, "back 2 nutri info")
           THEN "nutrition"
      ELSE IF includes(lower, "view products") THEN "catalog"
      ELSE IF includes(lower, "have a query") THEN "query"
      ELSE IF includes(msgBody, "how are you") THEN "how_are_you"
      ELSE IF msgBody = "fine" THEN "fine"
      ELSE IF includes(msgBody, "thank you") \/ includes(msgBody, "thanks") THEN "thanks"
      ELSE IF \E w \in {"awesome", "amazing", "great"} : includes(msgBody, w) THEN "praise"
      ELSE IF msg.type = "order" \/ msgBody = "order_received" THEN "order"
      ELSE IF followUp THEN "reminder"
      ELSE "ai"

\* totalAmount of the catalog order branch
RECURSIVE OrderTotal(_)
OrderTotal(items) ==
  IF items = <<>> THEN 0
  ELSE Times100(Head(items).item_price)
          * (IF Head(items).quantity = 0 THEN 1 ELSE Head(items).quantity)
         + OrderTotal(Tail(items))

\* what askGemini returns
AiOutcomes == {"answer", "empty", "throw"}
askGemini(ai) ==
  CASE ai = "answer" -> "ai_answer"
    [] ai = "empty"  -> "ai_not_sure"
    [] ai = "throw"  -> "ai_trouble"

---------------------------------------------------------------------------
(* What is delivered to the two webhooks, and the values the string        *)
(* functions take on it.                                                   *)

\* text the customers type, and titles of the replies they tap
Texts == { "main menu", "hi", "Thanks", "track 12345678901234", "12345678901234",
           "1234567890123", "123456789012345", "asha a@b.co", "do you ship abroad" }
ChatMessages ==
  { TextMsg(f, b) : f \in RawPhones, b \in Texts }
    \cup { ListReply(f, "Main Menu") : f \in RawPhones }
    \cup { ButtonReply(f, "View Products") : f \in RawPhones }
\* texts for the intent table: a phrase in another case and padded, a
\* phrase inside a sentence, fragments of phrases, a text with one of the
\* trace keywords, an unrelated text; and a message that is no text
IntentTexts == { " Buy Now ", "any recipes today", "buy", "y", "the original",
                 "do you ship abroad" }
IntentMessages ==
  { TextMsg(f, b) : f \in RawPhones, b \in IntentTexts }
    \cup { ImageMsg(f) : f \in RawPhones }
InboundMessages ==
  ChatMessages \cup IntentMessages
               \cup { FlowMsg(f, d) : f \in RawPhones, d \in CustomerDatas }
               \cup { OrderMsg(f, l) : f \in RawPhones, l \in OrderLists }

\* A payments-webhook body: event, payload.payment_link.entity.reference_id,
\* payload.payment.entity.reference_id, .notes.orderId, .contact and
\* payload.payment_link.entity.customer.contact ("" for a missing field)
Webhook(event, pl_ref, p_ref, notes, p_contact, pl_contact) ==
  [event |-> event, pl_ref |-> pl_ref, p_ref |-> p_ref, notes_orderId |-> notes,
   p_contact |-> p_contact, pl_contact |-> pl_contact]

\* event names of the payment provider
Events == { "payment.captured", "payment_link.paid", "payment.failed",
            "payment_link.cancelled", "Payment_Link.Expired" }
\* the reference ids and contacts a delivery carries
References ==
  { <<"OUO-00417", "", "", "", "">>,
    <<"OUO-55555", "OUO-93250", "", "", "918">>,
    <<"", "OUO-93250", "OUO-00417", "", "">>,
    <<"", "", "OUO-00417", "+91 8", "">>,
    <<"", "", "", "+91 7", "918">>,
    <<"", "", "", "", "918">>,
    <<"", "", "", "", "">> }
\* by reference id, by contact, and neither
PlainReferences ==
  { <<"OUO-00417", "", "", "", "">>,
    <<"", "", "", "", "918">>,
    <<"", "", "", "", "">> }
\* every event with the plain references, and one event with all of them
Webhooks ==
  { Webhook(e, r[1], r[2], r[3], r[4], r[5]) : e \in Events, r \in PlainReferences }
    \cup { Webhook("payment.failed", r[1], r[2], r[3], r[4], r[5]) : r \in References }

PhoneStrings ==
  RawPhones \cup {w.p_contact : w \in Webhooks} \cup {w.pl_contact : w \in Webhooks}
normalizePhoneAt == [p \in PhoneStrings |-> normalizePhone(p)]
MsgBodyAt == [msg \in InboundMessages |-> MsgBody(msg)]
Bodies == {MsgBodyAt[msg] : msg \in InboundMessages}
findIntentBasedResponseAt == [b \in Bodies |-> findIntentBasedResponse(b)]
DispatchAt == [msg \in InboundMessages |-> [followUp \in BOOLEAN |-> Dispatch(msg, followUp)]]
\* the test of line 1625: an e-mail address and at least two words
HasNameAndEmailAt == [b \in Bodies |-> HasEmail(b) /\ WordCount(b, FALSE) >= 2]
\* The contact of lines 1622-1633 of the bodies that carry one
ContactAt ==
  [b \in {x \in Bodies : HasNameAndEmailAt[x]} |->
     [name |-> ContactName(b), email |-> EmailMatch(b)]]
IsCodModeAt == [d \in CustomerDatas |-> IsCodMode(d)]

---------------------------------------------------------------------------
(* The chain. *)

\* The branch of the chain that Dispatch names (lines 1524-1669): what it
\* leaves and sends.  ca: what appendCustomerToSheet does; send records it in
\* a run that called appendCustomerToSheet.
ChainBranch(msg, from, msgBody, branch, intentResponse, base, ai, ca) ==
  CASE branch \in {"menu", "greeting"} ->
         [base EXCEPT !.sent = << Interactive(from, "list", "main_menu") >>]
    [] branch = "intent" ->
         [base EXCEPT !.replyText = intentResponse.key,
                      !.buttons = intentResponse.buttons]
    [] branch = "awb" ->
         [base EXCEPT !.sent = << Interactive(from, "cta_url", "tracking") >>]
    [] branch = "sourcing" ->
         [base EXCEPT !.sent = << Interactive(from, "list", "sourcing_story") >>]
    [] branch = "nutrition" ->
         [base EXCEPT !.sent = << Interactive(from, "list", "nutrition_info") >>]
    [] branch = "catalog" ->
         [base EXCEPT !.sent = << Interactive(from, "product_list", "catalog") >>]
    [] branch = "query" ->
         [base EXCEPT !.sent = << Interactive(from, "template", "have_a_query") >>]
    [] branch \in {"how_are_you", "fine", "thanks", "praise"} ->
         [base EXCEPT !.replyText = branch]
    [] branch = "order" ->
         [base EXCEPT !.sessions =
                        Put(base.sessions, from,
                            Put(Put(Put(Get(base.sessions, from, <<>>),
                                        "catalogId", "catalog"),
                                    "productItems", msg.items),
                                "amount", OrderTotal(msg.items))),
                      !.sent = << Interactive(from, "flow", "delivery_details"),
                                  Text(from, "tap_the_button") >>]
    [] branch = "reminder" ->
         IF HasNameAndEmailAt[msgBody]
         THEN [base EXCEPT !.reminded = base.reminded \ {from},
                           !.completed = base.completed \cup {from},
                           !.contacts = << << "ts", ContactAt[msgBody].name,
                                              ContactAt[msgBody].email,
                                              from >> >>,
                           !.send = ca,
                           !.sent = IF ca = "ok"
                                    THEN << Text(from, "saved_details") >>
                                    ELSE <<>>]
         ELSE base
    [] branch = "ai" ->
         [base EXCEPT !.replyText = askGemini(ai)]

\* The reply that follows the chain (lines 1671-1685), and what the run did
ChainResult(from, branch, r) ==
  [sessions |-> r.sessions, reminded |-> r.reminded, completed |-> r.completed,
   msgs |-> Append(r.sent, IF r.buttons
                           THEN Interactive(from, "button", r.replyText)
                           ELSE Text(from, r.replyText)),
   contacts |-> r.contacts, send |-> r.send, case |-> branch]

\* The chain and the reply that follows it (lines 1505-1685), for the branch
\* that Dispatch names.  ca: what appendCustomerToSheet does.
ChainRun(msg, sessions, reminded, completed, ai, ca) ==
  ChainResult(normalizePhoneAt[msg.from],
    DispatchAt[msg][(normalizePhoneAt[msg.from] \in reminded
                     /\ normalizePhoneAt[msg.from] \notin completed)],
    ChainBranch(msg, normalizePhoneAt[msg.from], MsgBodyAt[msg],
                DispatchAt[msg][(normalizePhoneAt[msg.from] \in reminded
                                 /\ normalizePhoneAt[msg.from] \notin completed)],
                findIntentBasedResponseAt[MsgBodyAt[msg]],
                [sessions |-> sessions, reminded |-> reminded, completed |-> completed,
                 sent |-> <<>>, contacts |-> <<>>, send |-> "", replyText |-> "",
                 buttons |-> FALSE],
                ai, ca))

---------------------------------------------------------------------------
(* Idle timer. *)

\* if (idleTimers[from]) clearTimeout(idleTimers[from])
ClearTimeout(timers, from) ==
  IF Get(timers, from, 0) > 0 THEN Put(timers, from, timers[from] - 1) ELSE timers
\* idleTimers[from] = setTimeout(..., 30 * 60 * 1000)
SetTimeout(timers, from) == Put(timers, from, Get(timers, from, 0) + 1)

\* The timer armed without the clearTimeout of line 1226
RearmWithoutClear(timers, completed, from) ==
  IF from \notin completed THEN SetTimeout(timers, from) ELSE timers

\* lines 1225-1238
RearmIdleTimer(timers, completed, from) ==
  IF from \notin completed THEN SetTimeout(ClearTimeout(timers, from), from) ELSE timers

---------------------------------------------------------------------------
(* POST / : one run of the message handler. *)

\* if (!phoneToOrderIds[from]) phoneToOrderIds[from] = []
InitIndex(index, from) == IF from \in DOMAIN index THEN index ELSE Put(index, from, <<>>)

\* A test-token submission that is acknowledged to the user like a stored one
TestSubmissionAcked(run, from) ==
  /\ phoneToOrderIds' = InitIndex(phoneToOrderIds, from)
  /\ last' = [run EXCEPT !.case = "flow_test", !.resp = 200,
                         !.msgs = << TextArg(from, "received_details", 0) >>]
  /\ UNCHANGED <<orderSessions, remindedUsers, completedUsers, nSubmissions>>

\* The run for the test flow token: line 1314
TestSubmission(run, from) ==
  /\ phoneToOrderIds' = InitIndex(phoneToOrderIds, from)
  /\ last' = [run EXCEPT !.case = "flow_test", !.resp = 200]
  /\ UNCHANGED <<orderSessions, remindedUsers, completedUsers, nSubmissions>>

\* A stored submission that puts its orderId at the head of the phone's list
StoredSubmissionPrepending(run, from, orderId, cod, q, c, od, b) ==
  /\ nSubmissions' = nSubmissions + 1
  /\ orderSessions' = Put(orderSessions, orderId, b.session)
  /\ phoneToOrderIds' =
       Put(phoneToOrderIds, from, <<orderId>> \o Get(phoneToOrderIds, from, <<>>))
  /\ last' = [run EXCEPT !.case = IF cod THEN "flow_cod" ELSE "flow_prepaid",
                         !.key = orderId,
                         !.resp = b.resp,
                         !.msgs = << TextArg(from, "received_details", 0) >> \o b.msgs,
                         !.calls = b.calls,
                         !.rows = b.rows,
                         !.quote = q,
                         !.create = IF cod THEN c ELSE "",
                         !.send = IF cod THEN "" ELSE od]
  /\ UNCHANGED <<remindedUsers, completedUsers>>

\* What a stored submission leaves: b is what its COD or Prepaid branch did
StoredSubmission(run, from, orderId, cod, q, c, od, b) ==
  /\ nSubmissions' = nSubmissions + 1
  /\ orderSessions' = Put(orderSessions, orderId, b.session)
  /\ phoneToOrderIds' =
       Put(phoneToOrderIds, from, Append(Get(phoneToOrderIds, from, <<>>), orderId))
  /\ last' = [run EXCEPT !.case = IF cod THEN "flow_cod" ELSE "flow_prepaid",
                         !.key = orderId,
                         !.resp = b.resp,
                         !.msgs = << TextArg(from, "received_details", 0) >> \o b.msgs,
                         !.calls = b.calls,
                         !.rows = b.rows,
                         !.quote = q,
                         !.create = IF cod THEN c ELSE "",
                         !.send = IF cod THEN "" ELSE od]
  /\ UNCHANGED <<remindedUsers, completedUsers>>

\* What a run of the chain leaves: r is what ChainRun did
ChainedMessage(run, from, r) ==
  /\ phoneToOrderIds' = InitIndex(phoneToOrderIds, from)
  /\ orderSessions' = r.sessions
  /\ remindedUsers' = r.reminded
  /\ completedUsers' = r.completed
  /\ last' = [run EXCEPT !.case = r.case, !.resp = 200, !.msgs = r.msgs,
                         !.contacts = r.contacts, !.send = r.send]
  /\ UNCHANGED nSubmissions

\* The handler from its second line on, from being normalizePhone(msg.from)
HandleFrom(msg, from, uid, q, c, od, ai, ca) ==
  /\ idleTimers' = RearmIdleTimer(idleTimers, completedUsers, from)
  /\ UNCHANGED sendingReminder
  /\ IF msg.itype = "nfm_reply"
     THEN IF Get(msg.data, "flow_token", "") = "test_101"
          THEN TestSubmission([NoRun EXCEPT !.op = "message", !.msg = msg], from)
          ELSE StoredSubmission([NoRun EXCEPT !.op = "message", !.msg = msg], from,
                 OrderIdOf(uid), IsCodModeAt[msg.data], q, c, od,
                 IF IsCodModeAt[msg.data]
                 THEN CodBranch(NewSession(OrderIdOf(uid), from, msg.data),
                                from, msg.data, q, c)
                 ELSE PrepaidBranch(NewSession(OrderIdOf(uid), from, msg.data),
                                    from, msg.data, q, od))
     ELSE ChainedMessage([NoRun EXCEPT !.op = "message", !.msg = msg], from,
            ChainRun(msg, orderSessions, remindedUsers, completedUsers, ai, ca))

\* uid: the random order suffix; q, c: what the rate-quote and the
\* shipment-creation requests answer; od: what sending order_details does;
\* ai, ca: what the AI responder and the contacts append do.
HandleMessage(msg, uid, q, c, od, ai, ca) ==
  HandleFrom(msg, normalizePhoneAt[msg.from], uid, q, c, od, ai, ca)

---------------------------------------------------------------------------
(* Order finalizer and payments webhook. *)

\* The row finalizePaidOrder appends: 14 columns
\* The "Paid" row with the shipment response logged as it came, without the
\* "|| {}" of line 1127
PaidRowRaw(session, phone, c) ==
  LET customer == Get(session, "customer", <<>>)
  IN  << "ts", Get(customer, "name", ""), Get(customer, "phone", phone),
         Get(customer, "email", ""), "", Get(customer, "pincode", ""),
         Get(session, "productItems", <<>>), "Prepaid", "Paid",
         toFixed2(Get(session, "amount", NaN)),
         toFixed2(session.shipping_charge), "0.00",
         c,
         Get(session, "orderId", "") >>

\* The row of lines 1114-1129
PaidRow(session, phone, c) ==
  LET customer == Get(session, "customer", <<>>)
  IN  << "ts", Get(customer, "name", ""), Get(customer, "phone", phone),
         Get(customer, "email", ""), "", Get(customer, "pincode", ""),
         Get(session, "productItems", <<>>), "Prepaid", "Paid",
         toFixed2(Get(session, "amount", NaN)),
         toFixed2(session.shipping_charge), "0.00",
         IF c \in {"throw", "null"} THEN "{}" ELSE c,
         Get(session, "orderId", "") >>

\* The finalizer with a guard on the session being paid already: a second
\* run issues nothing
finalizePaidOrderOnce(session, q, c) ==
  LET phone == Get(session, "phone", "")
      customer == Get(session, "customer", <<>>)
      pin == Get(customer, "pincode", "")
      total_wgt == TotalWeightOr(Get(session, "productItems", <<>>))
      shippingChargePaise == PrepaidQuote(q)
      s1 == Put(Put(session, "payment_status", "paid"),
                "shipping_charge", shippingChargePaise)
  IN  IF Get(session, "payment_status", "") = "paid"
      THEN [session |-> session, msgs |-> <<>>, calls |-> <<>>, rows |-> <<>>]
      ELSE [session |-> s1,
            msgs |-> << Text(phone, "payment_successful"),
                        IF c = "throw" THEN Text(phone, "shipment_failed")
                                       ELSE Text(phone, "shipment_created") >>,
            calls |-> << ChargesCall("Pre-paid", total_wgt, pin),
                         CreateCall("Prepaid", 0, pin,
                                    RoundRupees(Get(session, "amount", NaN))) >>,
            rows |-> << PaidRow(s1, phone, c) >>]

\* The finalizer with the quoted shipping charge added to the session's
\* amount
finalizePaidOrderCharging(session, q, c) ==
  LET phone == Get(session, "phone", "")
      customer == Get(session, "customer", <<>>)
      pin == Get(customer, "pincode", "")
      total_wgt == TotalWeightOr(Get(session, "productItems", <<>>))
      shippingChargePaise == PrepaidQuote(q)
      s1 == Put(Put(Put(session, "payment_status", "paid"),
                    "shipping_charge", shippingChargePaise),
                "amount", Add(Get(session, "amount", NaN), shippingChargePaise))
  IN  [session |-> s1,
       msgs |-> << Text(phone, "payment_successful"),
                   IF c = "throw" THEN Text(phone, "shipment_failed")
                                  ELSE Text(phone, "shipment_created") >>,
       calls |-> << ChargesCall("Pre-paid", total_wgt, pin),
                    CreateCall("Prepaid", 0, pin, RoundRupees(Get(session, "amount", NaN))) >>,
       rows |-> << PaidRow(s1, phone, c) >>]

\* finalizePaidOrder(session): the new session object and what was issued
finalizePaidOrder(session, q, c) ==
  LET phone == Get(session, "phone", "")
      customer == Get(session, "customer", <<>>)
      pin == Get(customer, "pincode", "")
      total_wgt == TotalWeightOr(Get(session, "productItems", <<>>))
      shippingChargePaise == PrepaidQuote(q)
      s1 == Put(Put(session, "payment_status", "paid"),
                "shipping_charge", shippingChargePaise)
  IN  [session |-> s1,
       msgs |-> << Text(phone, "payment_successful"),
                   IF c = "throw" THEN Text(phone, "shipment_failed")
                                  ELSE Text(phone, "shipment_created") >>,
       calls |-> << ChargesCall("Pre-paid", total_wgt, pin),
                    CreateCall("Prepaid", 0, pin, RoundRupees(Get(session, "amount", NaN))) >>,
       rows |-> << PaidRow(s1, phone, c) >>]

\* const referenceId = ... (line 1701); "" for null
ReferenceId(w) ==
  IF w.pl_ref # "" THEN w.pl_ref
  ELSE IF w.p_ref # "" THEN w.p_ref
  ELSE w.notes_orderId

\* The lookup with the phone's first orderId taken instead of its last
LookupSessionFirst(w, sessions, index) ==
  LET referenceId == ReferenceId(w)
      phone0 == normalizePhoneAt[w.p_contact]
      phone == IF phone0 = "" /\ w.pl_contact # "" THEN normalizePhoneAt[w.pl_contact]
               ELSE phone0
  IN  IF referenceId # "" /\ referenceId \in DOMAIN sessions
      THEN [key |-> referenceId, via |-> "reference"]
      ELSE IF phone # "" /\ phone \in DOMAIN index /\ Len(index[phone]) > 0
      THEN [key |-> index[phone][1], via |-> "phone"]
      ELSE [key |-> "", via |-> "none"]

\* The session lookup of lines 1715-1730: the key of the session the handler
\* acts on, "" when it finds none
LookupSession(w, sessions, index) ==
  LET referenceId == ReferenceId(w)
      phone0 == normalizePhoneAt[w.p_contact]
      phone == IF phone0 = "" /\ w.pl_contact # "" THEN normalizePhoneAt[w.pl_contact]
               ELSE phone0
  IN  IF referenceId # "" /\ referenceId \in DOMAIN sessions
      THEN [key |-> referenceId, via |-> "reference"]
      ELSE IF phone # "" /\ phone \in DOMAIN index /\ Len(index[phone]) > 0
      THEN [key |-> index[phone][Len(index[phone])], via |-> "phone"]
      ELSE [key |-> "", via |-> "none"]

\* The paid test made on "captured" instead of "paid"
IsCapturedStatus(status) == includes(status, "captured")

\* status.includes('paid')
IsPaidStatus(status) == includes(status, "paid")
\* The failed test without its third disjunct
IsFailedOrCancelStatus(status) ==
  includes(status, "failed") \/ includes(status, "cancel")

\* status.includes('failed') || status.includes('cancel') || status.includes('expired')
IsFailedStatus(status) ==
  includes(status, "failed") \/ includes(status, "cancel") \/ includes(status, "expired")

\* The branch of lines 1736-1745 an event takes
Classify(event) ==
  LET status == toLowerCase(event)
  IN  IF IsPaidStatus(status) THEN "paid"
      ELSE IF IsFailedStatus(status) THEN "failed"
      ELSE "ignored"
ClassifyAt == [e \in Events |-> Classify(e)]

\* POST /payments-webhook
PaymentsWebhook(w, q, c) ==
  LET found == LookupSession(w, orderSessions, phoneToOrderIds)
      run == [NoRun EXCEPT !.op = "payment", !.hook = w, !.event = w.event,
                           !.key = found.key, !.via = found.via, !.resp = 200]
  IN  /\ IF found.key = ""
         THEN /\ last' = [run EXCEPT !.case = "no_session"]
              /\ UNCHANGED orderSessions
         ELSE LET session == orderSessions[found.key] IN
              IF ClassifyAt[w.event] = "paid"
              THEN LET f == finalizePaidOrder(session, q, c)
                   IN  /\ orderSessions' = Put(orderSessions, found.key, f.session)
                       /\ last' = [run EXCEPT !.case = "paid", !.msgs = f.msgs,
                                              !.calls = f.calls, !.rows = f.rows,
                                              !.finalizer = 1, !.quote = q,
                                              !.create = c,
                                              !.was = IF Get(session, "payment_status", "")
                                                          = "paid"
                                                     THEN "paid" ELSE ""]
              ELSE IF ClassifyAt[w.event] = "failed"
              THEN /\ orderSessions' =
                        Put(orderSessions, found.key, Put(session, "payment_status", "failed"))
                   /\ last' = [run EXCEPT !.case = "failed",
                                          !.msgs = << Text(Get(session, "phone", ""),
                                                           "payment_failed_retry") >>]
              ELSE /\ last' = [run EXCEPT !.case = "ignored"]
                   /\ UNCHANGED orderSessions
      /\ UNCHANGED <<phoneToOrderIds, idleTimers, remindedUsers, completedUsers,
                     nSubmissions, sendingReminder>>

\* The callback without the completedUsers test of line 1229
IdleTimeoutUnguarded(from) ==
  /\ Get(idleTimers, from, 0) > 0
  /\ idleTimers' = Put(idleTimers, from, idleTimers[from] - 1)
  /\ remindedUsers' = remindedUsers \cup {from}
  /\ last' = [NoRun EXCEPT !.op = "timer", !.case = "reminder_sent", !.key = from,
                           !.msgs = << Text(from, "still_thinking") >>]
  /\ UNCHANGED <<orderSessions, phoneToOrderIds, completedUsers, nSubmissions,
                 sendingReminder>>

\* The callback run by a repeating interval instead of a one-shot timeout:
\* firing leaves it pending
IdleInterval(from) ==
  /\ Get(idleTimers, from, 0) > 0
  /\ UNCHANGED idleTimers
  /\ IF from \notin completedUsers
     THEN /\ remindedUsers' = remindedUsers \cup {from}
          /\ last' = [NoRun EXCEPT !.op = "timer", !.case = "reminder_sent",
                                   !.key = from,
                                   !.msgs = << Text(from, "still_thinking") >>]
     ELSE /\ UNCHANGED remindedUsers
          /\ last' = [NoRun EXCEPT !.op = "timer", !.case = "nothing", !.key = from]
  /\ UNCHANGED <<orderSessions, phoneToOrderIds, completedUsers, nSubmissions,
                 sendingReminder>>

\* The idle timeout of phone from fires (the callback of lines 1227-1237)
IdleTimeout(from) ==
  /\ Get(idleTimers, from, 0) > 0
  /\ idleTimers' = Put(idleTimers, from, idleTimers[from] - 1)
  /\ IF from \notin completedUsers
     THEN /\ remindedUsers' = remindedUsers \cup {from}
          /\ last' = [NoRun EXCEPT !.op = "timer", !.case = "reminder_sent",
                                   !.key = from,
                                   !.msgs = << Text(from, "still_thinking") >>]
     ELSE /\ UNCHANGED remindedUsers
          /\ last' = [NoRun EXCEPT !.op = "timer", !.case = "nothing", !.key = from]
  /\ UNCHANGED <<orderSessions, phoneToOrderIds, completedUsers, nSubmissions,
                 sendingReminder>>

\* The callback of lines 1227-1237 up to its await: the timeout of phone from
\* fires, the completedUsers test is made and the send is started
IdleTimeoutBegin(from) ==
  /\ Get(idleTimers, from, 0) > 0
  /\ Get(sendingReminder, from, 0) < MaxSending
  /\ idleTimers' = Put(idleTimers, from, idleTimers[from] - 1)
  /\ IF from \notin completedUsers
     THEN /\ sendingReminder' = Put(sendingReminder, from,
                                    Get(sendingReminder, from, 0) + 1)
          /\ last' = [NoRun EXCEPT !.op = "timer", !.case = "reminder_sending",
                                   !.key = from,
                                   !.msgs = << Text(from, "still_thinking") >>]
     ELSE /\ UNCHANGED sendingReminder
          /\ last' = [NoRun EXCEPT !.op = "timer", !.case = "nothing", !.key = from]
  /\ UNCHANGED <<orderSessions, phoneToOrderIds, remindedUsers, completedUsers,
                 nSubmissions>>

\* The callback from its await on without its remindedUsers.add(from)
IdleTimeoutResumeNoAdd(from) ==
  /\ Get(sendingReminder, from, 0) > 0
  /\ sendingReminder' = Put(sendingReminder, from, sendingReminder[from] - 1)
  /\ last' = [NoRun EXCEPT !.op = "timer", !.case = "reminder_sent", !.key = from]
  /\ UNCHANGED <<orderSessions, phoneToOrderIds, idleTimers, remindedUsers,
                 completedUsers, nSubmissions>>

\* The callback from its await on: the send has returned, remindedUsers.add(from)
IdleTimeoutResume(from) ==
  /\ Get(sendingReminder, from, 0) > 0
  /\ sendingReminder' = Put(sendingReminder, from, sendingReminder[from] - 1)
  /\ remindedUsers' = remindedUsers \cup {from}
  /\ last' = [NoRun EXCEPT !.op = "timer", !.case = "reminder_sent", !.key = from]
  /\ UNCHANGED <<orderSessions, phoneToOrderIds, idleTimers, completedUsers,
                 nSubmissions>>

---------------------------------------------------------------------------
(* The deliveries the environment makes. *)

\* A delivery-details submission arrives at POST /
FlowSubmission(from, customerData, uid, q, c, od) ==
  HandleMessage(FlowMsg(from, customerData), uid, q, c, od, "answer", "ok")

\* A catalog order arrives at POST /
CatalogOrder(from, items) ==
  HandleMessage(OrderMsg(from, items), "00417", "num", "success", "ok", "answer", "ok")

\* A text or a tapped reply arrives at POST /
ChatMessage(msg, ai, ca) ==
  HandleMessage(msg, "00417", "num", "success", "ok", ai, ca)

\* The payment provider delivers w to POST /payments-webhook
PaymentDelivery(w, q, c) == PaymentsWebhook(w, q, c)

---------------------------------------------------------------------------
(* The shipping router of src/delhivery.js.  A run is recorded in last:    *)
(* msg is the request body, resp the status answered, calls the requests   *)
(* made to the shipping provider; hook.apiKey tells whether                *)
(* DELHIVERY_API_KEY is configured, which is fixed when the process starts. *)

\* /^\d{6}$/.test(s)
IsPincode(s) == Len(s) = 6 /\ \A i \in 1..Len(s) : CharAt(s, i) \in DigitChars

\* pincodes a request carries; "" for a missing one
Pincodes == {"110042", " 110042 ", "11004", "1100421", "11004a", ""}
\* weights a request carries: 0 for a missing one, NaN for one that is no number
Weights == {500, 0, NaN}
\* what the shipping provider answers: a quote, a body without one, an error
\* status, no answer
ProviderOutcomes == {"num", "nofield", "status422", "throw"}

\* bodies of POST /calculate-shipping; empty: no body or {}
CalcRequests ==
  { [empty |-> FALSE, pincode |-> p, weight |-> w, paymentMode |-> m] :
      p \in Pincodes, w \in Weights, m \in {"cod", "prepaid"} }
    \cup { [empty |-> TRUE, pincode |-> "", weight |-> 0, paymentMode |-> ""] }

\* The status the validation of lines 26-59 leads to: 400, or 200 when the
\* request passes (every later path of the handler answers 200)
CalcStatus(req) ==
  IF req.empty THEN 400
  ELSE IF req.pincode = "" \/ req.weight = 0 THEN 400
  ELSE IF ~IsPincode(trim(req.pincode)) THEN 400
  ELSE IF req.weight = NaN \/ req.weight <= 0 THEN 400
  ELSE 200

\* router.post('/calculate-shipping'); o is what the provider answers
CalculateShipping(req, o) ==
  /\ last' = [NoRun EXCEPT
                !.op = "calculate-shipping", !.msg = req, !.hook = last.hook,
                !.resp = CalcStatus(req),
                !.quote = IF CalcStatus(req) = 200 /\ last.hook.apiKey THEN o ELSE "",
                !.calls = IF CalcStatus(req) = 200 /\ last.hook.apiKey
                          THEN << ChargesCall(IF req.paymentMode = "cod" THEN "COD"
                                              ELSE "Pre-paid",
                                              req.weight, trim(req.pincode)) >>
                          ELSE <<>>]
  /\ UNCHANGED <<orderSessions, phoneToOrderIds, idleTimers, remindedUsers,
                 completedUsers, nSubmissions, sendingReminder>>

\* the fields of shipmentData the handler requires
RequiredFields == {"name", "add", "pin", "phone", "order", "payment_mode", "total_amount"}
ValidShipment ==
  [name |-> "Asha", add |-> "12 Hill Road", pin |-> "249193", phone |-> "9876543210",
   order |-> "OUO-00417", payment_mode |-> "Prepaid", total_amount |-> "250"]
\* shipmentData of a request: valid, one field missing, other pins and phones
ShipmentDatas ==
  {ValidShipment}
    \cup { [ValidShipment EXCEPT ![f] = ""] : f \in RequiredFields }
    \cup { [ValidShipment EXCEPT !.pin = q] : q \in Pincodes }
    \cup { [ValidShipment EXCEPT !.phone = q] : q \in {"+91 98765 43210", "98765-43210"} }

\* bodies of POST /create-shipment; data, pickup: the body has shipmentData,
\* pickupLocation
CreateRequests ==
  { [empty |-> FALSE, data |-> TRUE, shipmentData |-> d, pickup |-> k] :
      d \in ShipmentDatas, k \in BOOLEAN }
    \cup { [empty |-> e, data |-> FALSE, shipmentData |-> ValidShipment, pickup |-> TRUE] :
              e \in BOOLEAN }

\* The status lines 138-191 lead to: 400 or 503, or 0 when the request is
\* forwarded to the provider
CreateStatus(req, apiKey) ==
  IF req.empty THEN 400
  ELSE IF ~req.data \/ ~req.pickup THEN 400
  ELSE IF ~apiKey THEN 503
  ELSE IF \E f \in RequiredFields : req.shipmentData[f] = "" THEN 400
  ELSE IF ~IsPincode(trim(req.shipmentData.pin)) THEN 400
  ELSE IF Len(normalizePhone(req.shipmentData.phone)) # 10 THEN 400
  ELSE 0

\* router.post('/create-shipment'); o is what the provider answers
CreateShipment(req, o) ==
  LET status == CreateStatus(req, last.hook.apiKey)
  IN  /\ last' = [NoRun EXCEPT
                    !.op = "create-shipment", !.msg = req, !.hook = last.hook,
                    !.create = IF status = 0 THEN o ELSE "",
                    !.resp = IF status # 0 THEN status
                             ELSE IF o = "status422" THEN 422
                             ELSE IF o = "throw" THEN 500 ELSE 200,
                    !.calls = IF status = 0
                              THEN << CreateCall(req.shipmentData.payment_mode, 0,
                                                 req.shipmentData.pin,
                                                 req.shipmentData.total_amount) >>
                              ELSE <<>>]
      /\ UNCHANGED <<orderSessions, phoneToOrderIds, idleTimers, remindedUsers,
                     completedUsers, nSubmissions, sendingReminder>>

---------------------------------------------------------------------------
(* The payment router of src/razorpay.js, POST /verify-payment.  A run is  *)
(* recorded in last: msg is the request body, resp the status answered,    *)
(* body the verified field of the answer ("" when the answer has none),    *)
(* via what the fetch of the payment gave.  hook holds the configuration,  *)
(* fixed when the process starts: secret is RAZORPAY_KEY_SECRET ("" when   *)
(* unset), razorpay tells whether the client was constructed.              *)

RAZORPAY_KEY_SECRET == "s3cret"

\* razorpay_order_id and razorpay_payment_id of a request; "" for a missing one
RazorpayOrderIds == {"order_A", "order_B", ""}
RazorpayPaymentIds == {"pay_1", "pay_2", ""}

\* crypto.createHmac('sha256', secret).update(text).digest('hex'): a string
\* of hexadecimal digits, of one length whatever the text, that differs from
\* one text to another.  The digest itself is not computed: the texts of the
\* model are given digests with these properties.
HmacHex(secret, text) ==
  CASE text = "order_A|pay_1" -> "9f3a61c2"
    [] text = "order_A|pay_2" -> "04be77d1"
    [] text = "order_B|pay_1" -> "c85d20fa"
    [] text = "order_B|pay_2" -> "61e9b43c"
    [] OTHER -> "d2170a5e"

\* razorpay_signature of a request: the digests, a string of their length
\* that is none of them, a shorter and a longer string, "" for a missing one
RazorpaySignatures ==
  { HmacHex(RAZORPAY_KEY_SECRET, o \o "|" \o p) :
      o \in RazorpayOrderIds \ {""}, p \in RazorpayPaymentIds \ {""} }
    \cup {"9f3a61c3", "9f3a61", "9f3a61c200", ""}

\* crypto.timingSafeEqual(Buffer.from(a), Buffer.from(b)): throws a
\* RangeError when the two buffers differ in byte length
timingSafeEqual(a, b) ==
  IF Len(a) # Len(b) THEN "throw" ELSE IF a = b THEN "true" ELSE "false"

\* razorpay.payments.fetch: the payment, or an error
FetchOutcomes == {"ok", "throw"}

\* bodies of POST /verify-payment (all three parameters strings); empty: no
\* body or {}
VerifyPaymentRequests ==
  { [empty |-> FALSE, razorpay_order_id |-> o, razorpay_payment_id |-> p,
     razorpay_signature |-> g] :
      o \in RazorpayOrderIds, p \in RazorpayPaymentIds, g \in RazorpaySignatures }
    \cup { [empty |-> TRUE, razorpay_order_id |-> "", razorpay_payment_id |-> "",
            razorpay_signature |-> ""] }

\* what the handler does with a request: "400", "503", "500" (the catch),
\* "valid" or "invalid" signature
VerifyPaymentPath(req, hook) ==
  IF req.empty THEN "400"
  ELSE IF ~hook.razorpay \/ hook.secret = "" THEN "503"
  ELSE IF req.razorpay_order_id = "" \/ req.razorpay_payment_id = ""
          \/ req.razorpay_signature = "" THEN "400"
  ELSE LET sign == req.razorpay_order_id \o "|" \o req.razorpay_payment_id
           expectedSign == HmacHex(hook.secret, sign)
           isValid == timingSafeEqual(expectedSign, req.razorpay_signature)
       IN  IF isValid = "throw" THEN "500"
           ELSE IF isValid = "true" THEN "valid" ELSE "invalid"

\* router.post('/verify-payment'); f is what the fetch of the payment gives
VerifyPayment(req, f) ==
  LET path == VerifyPaymentPath(req, last.hook)
  IN  /\ last' = [NoRun EXCEPT
                    !.op = "verify-payment", !.msg = req, !.hook = last.hook,
                    !.resp = CASE path = "valid" -> 200
                               [] path = "invalid" -> 400
                               [] path = "400" -> 400
                               [] path = "503" -> 503
                               [] OTHER -> 500,
                    !.body = CASE path = "valid" -> "verified:true"
                               [] path = "invalid" -> "verified:false"
                               [] OTHER -> "",
                    !.via = IF path = "valid" THEN f ELSE ""]
      /\ UNCHANGED <<orderSessions, phoneToOrderIds, idleTimers, remindedUsers,
                     completedUsers, nSubmissions, sendingReminder>>

\* The configured verify token (process.env.VERIFY_TOKEN)
VERIFY_TOKEN == "ouo_verify"

\* what the query of a verification request carries; "" for a parameter that
\* is absent
HubModes == {"subscribe", "Subscribe", "unsubscribe", "subscribe ", ""}
HubTokens == {"ouo_verify", "OUO_VERIFY", "ouo_verif", "ouo_verify1", ""}
HubChallenges == {"1158201444", "c", "0", "subscribe", ""}

\* The test of line 1187 with the mode left out
IsVerifiedByToken(mode, token) == token = VERIFY_TOKEN

\* mode === 'subscribe' && token === VERIFY_TOKEN
IsVerified(mode, token) == mode = "subscribe" /\ token = VERIFY_TOKEN

\* GET / : the webhook verification of lines 1183-1192
VerifyGet(mode, token, challenge) ==
  /\ last' = [NoRun EXCEPT !.op = "verify",
                           !.msg = [mode |-> mode, token |-> token,
                                    challenge |-> challenge],
                           !.resp = IF IsVerified(mode, token) THEN 200 ELSE 403,
                           !.body = IF IsVerified(mode, token) THEN challenge
                                    ELSE "Forbidden"]
  /\ UNCHANGED <<orderSessions, phoneToOrderIds, idleTimers, remindedUsers,
                 completedUsers, nSubmissions, sendingReminder>>

\* The gateway answers a run can observe: those of the requests it makes
UsedOutcomes(used, outcomes) == IF used THEN outcomes ELSE {CHOOSE o \in outcomes : TRUE}

Init ==
  /\ orderSessions = <<>>
  /\ phoneToOrderIds = <<>>
  /\ idleTimers = <<>>
  /\ remindedUsers = {}
  /\ completedUsers = {}
  /\ nSubmissions = 0
  /\ sendingReminder = <<>>
  /\ last = NoRun

\* Whether a submission is one the handler stores (not the test token)
IsStored(customerData) == Get(customerData, "flow_token", "") # "test_101"

\* The customers chat, order from the catalog and fall idle
NextChat ==
  \/ \E msg \in ChatMessages :
       LET from == normalizePhoneAt[msg.from]
           branch == DispatchAt[msg][(from \in remindedUsers /\ from \notin completedUsers)]
       IN  \E ai \in UsedOutcomes(branch = "ai", AiOutcomes),
              ca \in UsedOutcomes(branch = "reminder", SendOutcomes) :
             ChatMessage(msg, ai, ca)
  \/ \E from \in RawPhones, items \in OrderLists : CatalogOrder(from, items)
  \/ \E from \in RawPhones : IdleTimeout(normalizePhoneAt[from])

SpecChat == Init /\ [][NextChat]_vars

\* The same environment with the event loop running every due timeout: a
\* timeout that stays pending fires
SpecIdle ==
  Init /\ [][NextChat]_vars
       /\ \A from \in RawPhones : WF_vars(IdleTimeout(normalizePhoneAt[from]))

\* The customers order from the catalog and submit delivery details; the
\* shipping and messaging gateways answer in every way they can
NextSubmit ==
  \/ \E from \in RawPhones, items \in OrderLists : CatalogOrder(from, items)
  \/ \E from \in RawPhones, customerData \in CustomerDatas :
       LET stored == IsStored(customerData)
           cod == IsCodModeAt[customerData]
       IN  /\ stored => nSubmissions < MaxQuotedSubmissions
           /\ \E uid \in UsedOutcomes(stored, UidSpace),
                 q \in UsedOutcomes(stored, QuoteOutcomes),
                 c \in UsedOutcomes(stored /\ cod, CreateOutcomes),
                 od \in UsedOutcomes(stored /\ ~cod, SendOutcomes) :
                FlowSubmission(from, customerData, uid, q, c, od)

SpecSubmit == Init /\ [][NextSubmit]_vars

\* The customers submit delivery details, with the gateways answering well,
\* and the payment provider delivers events; the two requests of the
\* finalizer answer as FinalizerOutcomes lists
NextPay ==
  \/ \E from \in RawPhones, customerData \in {d \in CustomerDatas : IsStored(d)},
        uid \in UidSpace :
       /\ nSubmissions < MaxSubmissions
       /\ FlowSubmission(from, customerData, uid, "num", "success", "ok")
  \/ \E w \in Webhooks :
       LET paid == /\ LookupSession(w, orderSessions, phoneToOrderIds).key # ""
                   /\ ClassifyAt[w.event] = "paid"
       IN  \E o \in UsedOutcomes(paid, FinalizerOutcomes) :
             PaymentDelivery(w, o[1], o[2])

SpecPay == Init /\ [][NextPay]_vars

\* texts of a customer who is reminded and answers
RaceTexts == {"hi", "asha a@b.co", "do you ship abroad"}
RaceMessages == {TextMsg(f, b) : f \in RawPhones, b \in RaceTexts}

\* The customers chat and fall idle, with the timer callback interleaved at
\* its await: other handlers run between the start of its send and its
\* remindedUsers.add
NextRace ==
  \/ \E msg \in RaceMessages :
       LET from == normalizePhoneAt[msg.from]
           branch == DispatchAt[msg][(from \in remindedUsers /\ from \notin completedUsers)]
       IN  \E ai \in UsedOutcomes(branch = "ai", AiOutcomes),
              ca \in UsedOutcomes(branch = "reminder", SendOutcomes) :
             ChatMessage(msg, ai, ca)
  \/ \E from \in RawPhones : IdleTimeoutBegin(normalizePhoneAt[from])
  \/ \E from \in RawPhones : IdleTimeoutResume(normalizePhoneAt[from])

SpecRace == Init /\ [][NextRace]_vars

\* The same environment with the event loop running every due timeout and
\* resuming every callback whose send has returned
SpecRaceFair ==
  Init /\ [][NextRace]_vars
       /\ \A from \in RawPhones :
            /\ WF_vars(IdleTimeoutBegin(normalizePhoneAt[from]))
            /\ WF_vars(IdleTimeoutResume(normalizePhoneAt[from]))

\* what the repeated orders draw from: the customer who orders from the
\* catalog (the other one submits without a selection), two selections, a
\* quote that fails and one that answers a number, and a paid event resolved
\* by the payer's phone
ReorderPhones == {"917"}
ReorderLists == { <<ItemA>>, <<ItemA, ItemB>> }
ReorderQuotes == {"throw", "num"}
ReorderWebhooks == { Webhook("payment_link.paid", "", "", "", "", "917") }

\* The customers order from the catalog again and again and submit delivery
\* details after each order; the payment provider reports a payment
NextReorder ==
  \/ \E from \in ReorderPhones, items \in ReorderLists : CatalogOrder(from, items)
  \/ \E from \in RawPhones, customerData \in {d \in CustomerDatas : IsStored(d)},
        uid \in UidSpace, q \in ReorderQuotes :
       /\ nSubmissions < MaxSubmissions
       /\ FlowSubmission(from, customerData, uid, q, "success", "ok")
  \/ \E w \in ReorderWebhooks : PaymentDelivery(w, "num", "success")

SpecReorder == Init /\ [][NextReorder]_vars

\* The customers send the texts of IntentTexts and pictures, and fall idle
NextIntent ==
  \/ \E msg \in IntentMessages : ChatMessage(msg, "answer", "ok")
  \/ \E from \in RawPhones : IdleTimeout(normalizePhoneAt[from])

SpecIntent == Init /\ [][NextIntent]_vars

\* The shipping router starts with or without DELHIVERY_API_KEY
InitShip ==
  /\ orderSessions = <<>>
  /\ phoneToOrderIds = <<>>
  /\ idleTimers = <<>>
  /\ remindedUsers = {}
  /\ completedUsers = {}
  /\ nSubmissions = 0
  /\ sendingReminder = <<>>
  /\ \E apiKey \in BOOLEAN : last = [NoRun EXCEPT !.hook = [apiKey |-> apiKey]]

\* The shipping router is asked for quotes and shipments
NextShip ==
  \/ \E req \in CalcRequests :
       \E o \in UsedOutcomes(CalcStatus(req) = 200 /\ last.hook.apiKey, ProviderOutcomes) :
         CalculateShipping(req, o)
  \/ \E req \in CreateRequests :
       \E o \in UsedOutcomes(CreateStatus(req, last.hook.apiKey) = 0, ProviderOutcomes) :
         CreateShipment(req, o)

SpecShip == InitShip /\ [][NextShip]_vars

\* The payment router starts with the client constructed or not; it is
\* constructed only when the key secret is set
InitRazorpay ==
  /\ orderSessions = <<>>
  /\ phoneToOrderIds = <<>>
  /\ idleTimers = <<>>
  /\ remindedUsers = {}
  /\ completedUsers = {}
  /\ nSubmissions = 0
  /\ sendingReminder = <<>>
  /\ \E secret \in {"", RAZORPAY_KEY_SECRET}, razorpay \in BOOLEAN :
       /\ razorpay => secret # ""
       /\ last = [NoRun EXCEPT !.hook = [secret |-> secret, razorpay |-> razorpay]]

\* The payment router is asked to verify payments
NextRazorpay ==
  \E req \in VerifyPaymentRequests :
    \E f \in UsedOutcomes(VerifyPaymentPath(req, last.hook) = "valid", FetchOutcomes) :
      VerifyPayment(req, f)

SpecRazorpay == InitRazorpay /\ [][NextRazorpay]_vars

\* Meta verifies the webhook
NextVerify ==
  \E mode \in HubModes, token \in HubTokens, challenge \in HubChallenges :
    VerifyGet(mode, token, challenge)

SpecVerify == Init /\ [][NextVerify]_vars

\* Every delivery of the environments above
Next == NextChat \/ NextSubmit \/ NextPay \/ NextRace \/ NextVerify \/ NextReorder \/ NextIntent \/ NextShip \/ NextRazorpay
Spec == Init /\ [][Next]_vars

---------------------------------------------------------------------------
(* Properties of the delivery-details submission (SpecSubmit). *)

Handlers == {"message", "payment"}

\* C1: every delivery to POST / and to POST /payments-webhook is answered
\* with 200, whatever the gateway calls made while handling it do.
C1_EveryDeliveryAnswered ==
  last.op \in Handlers => last.resp = 200

\* the pending subtotal of the phone of the last message
PendingSubtotal ==
  OrZero(Get(Get(orderSessions, normalizePhoneAt[last.msg.from], <<>>), "amount", 0))

\* The shipping a COD amount includes according to C3: the quoted
\* total_amount in paise, or 0 when the quote throws or has no parseable
\* total_amount
ClaimedCodShipping(q) ==
  IF q = "num" THEN MathRound(Times100(QuotedTotal)) ELSE 0

\* C3: after a COD submission the session's amount is the pending subtotal
\* + 15000 + the quoted total_amount in paise, or + 0 when the quote throws or
\* has no parseable total_amount.
C3_CodAmount ==
  last.case = "flow_cod" =>
    orderSessions[last.key].amount =
      PendingSubtotal + Paise(15000) + ClaimedCodShipping(last.quote)

\* rows of a run with the given payment status (column 9)
RowsWithStatus(rows, status) == {i \in 1..Len(rows) : rows[i][9] = status}
\* messages of a run with the given body
MsgsWithBody(msgs, body) == {i \in 1..Len(msgs) : msgs[i].body = body}

\* C4: a COD submission appends a "Pending" row and tells the user the total
\* if and only if shipment creation reports success and the quote did not
\* take the fallback path; in every other outcome it appends no row and sends
\* the "data entered was invalid" message.
C4_CodPersistedIffValid ==
  last.case = "flow_cod" =>
    IF last.create = "success" /\ last.quote = "num"
    THEN /\ Cardinality(RowsWithStatus(last.rows, "Pending")) = 1
         /\ MsgsWithBody(last.msgs, "cod_placed") # {}
    ELSE /\ last.rows = <<>>
         /\ MsgsWithBody(last.msgs, "data_incorrect") # {}

---------------------------------------------------------------------------
(* Properties of the order ids and of the payments webhook (SpecPay). *)

OrderIds == {OrderIdOf(uid) : uid \in UidSpace}

\* C2: after N stored submissions N distinct orderIds exist: no submission
\* is given the orderId of an earlier session.
C2_DistinctOrderIds ==
  Cardinality(DOMAIN orderSessions \cap OrderIds) = nSubmissions

\* C9: once a submission has created a session with a payment mode, no later
\* event changes that session's payment mode.
C9_PaymentModeFixed ==
  [][\A k \in DOMAIN orderSessions :
       "payment_mode" \in DOMAIN orderSessions[k] =>
         /\ k \in DOMAIN orderSessions'
         /\ "payment_mode" \in DOMAIN orderSessions'[k]
         /\ orderSessions'[k].payment_mode = orderSessions[k].payment_mode]_vars

\* The last run was a payments-webhook delivery of event that found a
\* session by its reference id
ByReference(event) ==
  last.op = "payment" /\ last.event = event /\ last.via = "reference"

\* The finalizer ran once and one "Paid" row, and no other row, was appended
FinalizedOnce ==
  /\ last.finalizer = 1
  /\ Len(last.rows) = 1
  /\ Cardinality(RowsWithStatus(last.rows, "Paid")) = 1
  /\ Get(orderSessions[last.key], "payment_status", "") = "paid"

\* C5 as stated: a delivery of "payment.captured" whose reference id names a
\* session runs the finalizer exactly once and appends exactly one "Paid" row.
C5_CapturedFinalizes ==
  ByReference("payment.captured") => FinalizedOnce

\* C5: a delivery of "payment_link.paid", an event whose name contains
\* "paid", whose reference id names a session runs the finalizer exactly once
\* and appends exactly one "Paid" row, whatever the gateways answer; a
\* delivery of "payment.captured" runs no finalizer and appends no row.
C5_PaidFinalizes ==
  /\ ByReference("payment_link.paid") => FinalizedOnce
  /\ ByReference("payment.captured") => (last.finalizer = 0 /\ last.rows = <<>>)

C5_Witness ==
  /\ ByReference("payment_link.paid")
  /\ FinalizedOnce
  /\ last.msgs[2].body = "shipment_failed"

\* The first of payment_link.reference_id, payment.reference_id and
\* payment.notes.orderId that the delivery carries
ClaimedReference(w) ==
  CASE w.pl_ref # "" -> w.pl_ref
    [] w.p_ref # ""  -> w.p_ref
    [] OTHER         -> w.notes_orderId

\* The payer's phone: the digits of the payment's contact, else of the
\* payment link's customer contact
ClaimedPayer(w) ==
  IF normalizePhoneAt[w.p_contact] # "" THEN normalizePhoneAt[w.p_contact]
  ELSE normalizePhoneAt[w.pl_contact]

\* The key of the session C6 names for a delivery, "" when there is none
ClaimedSession(w) ==
  LET ref == ClaimedReference(w)
      ids == Get(phoneToOrderIds, ClaimedPayer(w), <<>>)
  IN  IF ref # "" /\ ref \in DOMAIN orderSessions THEN ref
      ELSE IF ids # <<>> THEN ids[Len(ids)]
      ELSE ""

\* C6: a payments webhook acts on the session under its reference id when
\* there is one, otherwise on the session of the last orderId of the payer's
\* phone; it changes no other session; and when it finds no session it
\* changes nothing, sends nothing, appends nothing and answers 200.
C6_WebhookSession ==
  /\ [](last.op = "payment" =>
          /\ last.key = ClaimedSession(last.hook)
          /\ last.resp = 200
          /\ last.key = "" =>
               (last.msgs = <<>> /\ last.rows = <<>> /\ last.calls = <<>>))
  /\ [][last'.op = "payment" =>
          /\ DOMAIN orderSessions' = DOMAIN orderSessions
          /\ \A k \in DOMAIN orderSessions :
               k # last'.key => orderSessions'[k] = orderSessions[k]]_vars

\* reached by the phone fallback, the phone having two orderIds
C6_Witness ==
  /\ last.op = "payment"
  /\ last.via = "phone"
  /\ Len(phoneToOrderIds[orderSessions[last.key].phone]) = 2
  /\ phoneToOrderIds[orderSessions[last.key].phone][1] # last.key
  /\ last.case = "paid"

\* the events of the model whose name contains "failed", "cancel" or
\* "expired" in some case, and not "paid"
FailedEvents == {"payment.failed", "payment_link.cancelled", "Payment_Link.Expired"}

\* C10: a delivery of a failed, cancelled or expired event that resolves to a
\* session sets its payment status to failed, sends the user one retry
\* notice, and makes no rate-quote, no shipment-creation request and no
\* spreadsheet append.
C10_FailedEvent ==
  (last.op = "payment" /\ last.event \in FailedEvents /\ last.key # "") =>
     /\ Get(orderSessions[last.key], "payment_status", "") = "failed"
     /\ last.msgs = << Text(orderSessions[last.key].phone, "payment_failed_retry") >>
     /\ last.calls = <<>>
     /\ last.rows = <<>>
     /\ last.finalizer = 0

C10_Witness ==
  /\ last.op = "payment"
  /\ last.event = "Payment_Link.Expired"
  /\ last.key # ""
  /\ Get(orderSessions[last.key], "payment_status", "") = "failed"
  /\ Len(last.msgs) = 1

---------------------------------------------------------------------------
(* Properties of the dispatcher (SpecChat). *)

\* The first case of the order of C7 whose predicate a message satisfies,
\* among the five that are decided by the message alone; "" when it satisfies
\* none of them
ClaimedCase(msg) ==
  LET msgBody == MsgBody(msg)
  IN  IF msgBody \in {"main menu", "Main Menu", "hi", "hello", "hey"} THEN "menu"
      ELSE IF msg.type = "order" THEN "order"
      ELSE IF msg.itype = "nfm_reply" THEN "flow"
      ELSE IF HasAwb(msgBody) THEN "awb"
      ELSE IF findIntentBasedResponse(msgBody) # NoIntent THEN "intent"
      ELSE ""
ClaimedCaseAt == [msg \in InboundMessages |-> ClaimedCase(msg)]

\* the case of C7 that a branch of the chain belongs to
CaseOfBranch(branch) == IF branch = "greeting" THEN "menu" ELSE branch

\* C7: of the cases main-menu/greeting > catalog order > delivery details >
\* 14-digit AWB token > intent table > reminder follow-up > AI fallback whose
\* predicates a message satisfies, the one that runs is the first in that
\* order.
C7_FirstCaseWins ==
  (last.op = "message" /\ ClaimedCaseAt[last.msg] # "") =>
     CaseOfBranch(last.case) = ClaimedCaseAt[last.msg]

\* round(item price in rupees x 100) x quantity, summed over the items
RECURSIVE ClaimedOrderTotal(_)
ClaimedOrderTotal(items) ==
  IF items = <<>> THEN 0
  ELSE MathRound(Times100(Head(items).item_price)) * Head(items).quantity
         + ClaimedOrderTotal(Tail(items))

\* C8: after a catalog order the amount stored for the phone is the sum over
\* the items of round(price x 100) x quantity, the same for every ordering
\* of the items.
C8_OrderAmount ==
  last.case = "order" =>
    /\ orderSessions[normalizePhoneAt[last.msg.from]].amount
         = ClaimedOrderTotal(last.msg.items)
    /\ \A other \in OrderLists :
         (Len(other) = Len(last.msg.items)
            /\ {other[i] : i \in 1..Len(other)}
                 = {last.msg.items[i] : i \in 1..Len(last.msg.items)})
         => OrderTotal(other) = OrderTotal(last.msg.items)

---------------------------------------------------------------------------
(* Properties of the order finalizer (SpecPay). *)

\* requests of a run to the given shipping API
CallsTo(calls, api) == {i \in 1..Len(calls) : calls[i].api = api}

\* the rows of a run that carry the orderId of the session the run acted on
RowsOfSession(rows) ==
  {i \in 1..Len(rows) : rows[i][14] = Get(orderSessions[last.key], "orderId", "")}

\* C11: every run of the order finalizer appends one row with status "Paid"
\* for the session, whether shipment creation succeeded or threw; when it
\* threw, the row's shipment-response field is the empty object and the user
\* receives the soft-failure message instead of the shipment-created message.
C11_PaidRowAlways ==
  last.finalizer = 1 =>
    /\ Len(last.rows) = 1
    /\ RowsWithStatus(last.rows, "Paid") \cap RowsOfSession(last.rows) = {1}
    /\ last.create = "throw" =>
         /\ last.rows[1][13] = "{}"
         /\ Cardinality(MsgsWithBody(last.msgs, "shipment_failed")) = 1
         /\ MsgsWithBody(last.msgs, "shipment_created") = {}
    /\ last.create = "success" =>
         /\ last.rows[1][13] = "success"
         /\ Cardinality(MsgsWithBody(last.msgs, "shipment_created")) = 1
         /\ MsgsWithBody(last.msgs, "shipment_failed") = {}

C11_Witness ==
  /\ last.finalizer = 1
  /\ last.create = "throw"
  /\ last.rows[1][9] = "Paid"
  /\ last.rows[1][13] = "{}"
  /\ last.msgs[2].body = "shipment_failed"

\* C12: each delivery of a paid event that resolves to a session runs the
\* whole finalizer sequence again, with no guard on the session being paid
\* already: the delivery issues one shipment-creation request and appends one
\* "Paid" row for the session, also when the session was paid before it, so
\* that k such deliveries produce k requests and k rows.
C12_PaidAgainFinalizesAgain ==
  (last.op = "payment" /\ last.case = "paid") =>
    /\ Cardinality(CallsTo(last.calls, "create")) = 1
    /\ Cardinality(RowsWithStatus(last.rows, "Paid") \cap RowsOfSession(last.rows)) = 1
    /\ Cardinality(MsgsWithBody(last.msgs, "payment_successful")) = 1

C12_Witness ==
  /\ last.op = "payment" /\ last.case = "paid"
  /\ last.was = "paid"
  /\ Cardinality(CallsTo(last.calls, "create")) = 1
  /\ Cardinality(RowsWithStatus(last.rows, "Paid")) = 1

---------------------------------------------------------------------------
(* Properties of the Prepaid submission (SpecSubmit). *)

\* the "Awaiting Payment" rows of the last run that carry the new orderId
AwaitingRows ==
  RowsWithStatus(last.rows, "Awaiting Payment")
    \cap {i \in 1..Len(last.rows) : last.rows[i][14] = last.key}

\* C13 as stated: every Prepaid delivery-details submission appends exactly
\* one row with status "Awaiting Payment" carrying the new orderId, and the
\* user is told that the payment prompt was shown.
C13_PrepaidRowAlways ==
  last.case = "flow_prepaid" =>
    /\ Len(last.rows) = 1
    /\ Cardinality(AwaitingRows) = 1
    /\ MsgsWithBody(last.msgs, "review_and_pay") # {}

\* C13: a Prepaid delivery-details submission whose order_details message is
\* sent appends exactly one row with status "Awaiting Payment" carrying the
\* new orderId, and the user is told that the payment prompt was shown; when
\* sending order_details throws (payment configuration missing, or the send
\* fails) no row is appended and the user is told that the payment could not
\* be initiated.
C13_PrepaidRowWhenPromptSent ==
  last.case = "flow_prepaid" =>
    IF last.send = "ok"
    THEN /\ Len(last.rows) = 1
         /\ Cardinality(AwaitingRows) = 1
         /\ MsgsWithBody(last.msgs, "review_and_pay") # {}
    ELSE /\ last.rows = <<>>
         /\ MsgsWithBody(last.msgs, "review_and_pay") = {}
         /\ MsgsWithBody(last.msgs, "could_not_initiate") # {}

C13_Witness ==
  /\ last.case = "flow_prepaid"
  /\ last.send = "ok"
  /\ AwaitingRows = {1}
  /\ last.msgs[Len(last.msgs)].body = "review_and_pay"

---------------------------------------------------------------------------
(* Properties of the idle timer and of the reminder (SpecChat). *)

Phones == {normalizePhoneAt[p] : p \in RawPhones}

\* the sender of the last message
LastFrom == normalizePhoneAt[last.msg.from]

\* C14: in every reachable state each phone has at most one pending idle
\* timer: handling a message from a phone that is not completed cancels that
\* phone's pending timer, if any, before arming the new one, so that exactly
\* one is pending after the run.
C14_OnePendingTimer ==
  /\ \A p \in Phones : Get(idleTimers, p, 0) <= 1
  /\ (last.op = "message" /\ LastFrom \notin completedUsers) =>
       Get(idleTimers, LastFrom, 0) = 1

\* A chat message handled for a phone that had ordered from the catalog
\* before and was never reminded: the timer the order armed was still pending
\* when the message arrived.
C14_Witness ==
  /\ last.op = "message" /\ last.case \notin {"order", ""}
  /\ LastFrom \in DOMAIN orderSessions
  /\ LastFrom \notin remindedUsers \cup completedUsers
  /\ idleTimers[LastFrom] = 1

\* the timeout of phone p fired in the last step
Fired(p) == last.op = "timer" /\ last.key = p
\* the last step sent a reminder to phone p
Reminded(p) == Fired(p) /\ MsgsWithBody(last.msgs, "still_thinking") # {}

C16_CompletedIsFinal ==
  [][\A p \in Phones :
       p \in completedUsers =>
         /\ p \in completedUsers'
         /\ Get(idleTimers', p, 0) <= Get(idleTimers, p, 0)
         /\ \A i \in 1..Len(last'.msgs) :
               last'.msgs[i].to = p => last'.msgs[i].body # "still_thinking"]_vars

\* The timer of a completed phone, armed before it completed, fired and sent
\* nothing
C16_Witness ==
  \E p \in Phones :
    /\ p \in completedUsers
    /\ Fired(p)
    /\ last.msgs = <<>>
    /\ p \notin remindedUsers

\* C17: a phone enters the completed set only while handling a message from
\* that phone that arrives when it is in reminded and not in completed and
\* whose text contains an email-shaped token and at least one other word; that
\* same step removes the phone from reminded, appends a {name, email, phone}
\* contact row and sends a confirmation.  A phone that was never reminded is
\* never moved to completed.
C17_CompletionStep ==
  [][\A p \in Phones :
       (p \in completedUsers' /\ p \notin completedUsers) =>
         /\ last'.op = "message" /\ normalizePhoneAt[last'.msg.from] = p
         /\ p \in remindedUsers
         /\ HasNameAndEmailAt[MsgBodyAt[last'.msg]]
         /\ p \notin remindedUsers'
         /\ Len(last'.contacts) = 1
         /\ last'.contacts[1][3] = EmailMatch(MsgBodyAt[last'.msg])
         /\ last'.contacts[1][4] = p
         /\ MsgsWithBody(last'.msgs, "saved_details") # {}]_vars

---------------------------------------------------------------------------
(* Isolation of the phones (SpecPay). *)

\* the orderIds the index lists for phone q
OrderIdsOf(index, q) ==
  {Get(index, q, <<>>)[i] : i \in 1..Len(Get(index, q, <<>>))}

\* everything the store keeps under phone q or under one of q's orderIds
KeyedBy(q, sessions, index, timers, reminded, completed) ==
  [cart |-> Get(sessions, q, <<>>),
   index |-> Get(index, q, <<>>),
   orders |-> [k \in OrderIdsOf(index, q) |-> Get(sessions, k, <<>>)],
   timers |-> Get(timers, q, 0),
   reminded |-> q \in reminded,
   completed |-> q \in completed]

\* C18: handlers for events of two different phones P and Q leave the
\* sessions, conversation-index lists, timers and reminder flags of P and of
\* Q as running them one after the other would: handling P's message never
\* writes state keyed by Q or by one of Q's orderIds.
C18_OtherPhoneUntouched ==
  [][last'.op = "message" =>
       \A q \in Phones \ {normalizePhoneAt[last'.msg.from]} :
         LET before == KeyedBy(q, orderSessions, phoneToOrderIds, idleTimers,
                               remindedUsers, completedUsers)
             after == KeyedBy(q, orderSessions', phoneToOrderIds', idleTimers',
                              remindedUsers', completedUsers')
         IN  after = before]_vars

---------------------------------------------------------------------------
(* Properties of the fallback and of the tracking prompt (SpecChat). *)

\* the replies the AI fallback produces: the responder's answer or one of the
\* two canned texts
AiReplies == {askGemini(ai) : ai \in AiOutcomes}

\* C19: every free-text message that matches none of the dispatcher's earlier
\* cases (case 8 being: phone in reminded, not in completed, and text with an
\* email-shaped token plus another word) is forwarded to the AI responder,
\* and the user receives a non-empty reply: the responder's answer or a canned
\* apology.  This holds also for a phone that is in reminded.
C19_FallbackAnswers ==
  [][LET msg == last'.msg
         from == normalizePhoneAt[msg.from]
     IN  (/\ last'.op = "message"
          /\ msg.type = "text"
          /\ DispatchAt[msg][FALSE] = "ai"
          /\ ~(/\ from \in remindedUsers /\ from \notin completedUsers
                /\ HasNameAndEmailAt[MsgBodyAt[msg]]))
         => /\ last'.case = "ai"
            /\ Len(last'.msgs) = 1
            /\ last'.msgs[1].to = from
            /\ last'.msgs[1].body \in AiReplies
            /\ last'.msgs[1].body # ""]_vars

\* s is a non-empty string of digits
IsDigits(s) == Len(s) > 0 /\ \A i \in 1..Len(s) : CharAt(s, i) \in DigitChars

\* the tracking-link prompts of the last run
TrackingPrompts == {i \in 1..Len(last.msgs) : last.msgs[i].type = "cta_url"}

\* C20: a digits-only text message is answered with a tracking-link prompt
\* if and only if it has exactly 14 digits (13-digit and 15-digit numbers are
\* not treated as a tracking number), and this outcome is the same whatever
\* sessions, index entries or reminder flags exist for the sender.
C20_FourteenDigits ==
  (last.op = "message" /\ last.msg.type = "text" /\ IsDigits(last.msg.body)) =>
     /\ (TrackingPrompts # {}) <=> (Len(last.msg.body) = 14)
     /\ (last.case = "awb") <=> (Len(last.msg.body) = 14)

\* A 14-digit text from a phone that has a pending order and has been
\* reminded is answered with the tracking prompt
C20_Witness ==
  /\ last.op = "message" /\ last.case = "awb"
  /\ IsDigits(last.msg.body) /\ Len(last.msg.body) = 14
  /\ TrackingPrompts # {}
  /\ LastFrom \in remindedUsers
  /\ LastFrom \in DOMAIN orderSessions

---------------------------------------------------------------------------
(* Properties of the persisted rows (SpecSubmit, SpecPay). *)

\* the number of columns of the row schema: timestamp ... orderId
RowColumns == 14

\* C21: every row appended to the order table, for each of the three
\* statuses Pending (COD), Awaiting Payment and Paid, has the same column
\* layout and carries the session's orderId as its last field.
C21_RowLayout ==
  \A i \in 1..Len(last.rows) :
    /\ Len(last.rows[i]) = RowColumns
    /\ last.rows[i][9] \in {"Pending", "Awaiting Payment", "Paid"}
    /\ last.rows[i][Len(last.rows[i])] = Get(orderSessions[last.key], "orderId", "")

---------------------------------------------------------------------------
(* Properties of the webhook verification (SpecVerify). *)

\* C22: the GET verification request is answered 200 with the challenge
\* echoed if and only if hub.mode is "subscribe" and hub.verify_token equals
\* the configured verify token; every other verification request is answered
\* 403.
C22_VerificationIffSubscribed ==
  last.op = "verify" =>
    IF last.msg.mode = "subscribe" /\ last.msg.token = VERIFY_TOKEN
    THEN last.resp = 200 /\ last.body = last.msg.challenge
    ELSE last.resp = 403

C22_Witness ==
  /\ last.op = "verify"
  /\ last.msg.mode = "subscribe" /\ last.msg.token = VERIFY_TOKEN
  /\ last.resp = 200
  /\ last.body = "1158201444"

---------------------------------------------------------------------------
(* Properties of the reminder flags under interleaving (SpecRace). *)

\* C23: in every reachable state, under any interleaving of message handlers
\* and idle-timer callbacks, no phone is in both the reminded set and the
\* completed set.
C23_RemindedOrCompleted ==
  remindedUsers \cap completedUsers = {}

---------------------------------------------------------------------------
(* Properties of the sessions the payments webhook acts on (SpecPay). *)

\* C24: the order finalizer (Prepaid shipment creation and a "Prepaid"/"Paid"
\* row) is only ever run on a session whose payment mode is Prepaid: no paid
\* event, whether resolved by reference id or by the payer-phone fallback to
\* the phone's latest order, finalizes a COD session.
C24_FinalizerOnlyPrepaid ==
  last.finalizer = 1 =>
    Get(orderSessions[last.key], "payment_mode", "") = "Prepaid"

---------------------------------------------------------------------------
(* Properties of the COD branch's gateway requests (SpecSubmit). *)

\* C25: no COD shipment is created at the shipping gateway without a
\* persisted row for it: the shipment-creation request is not issued for a
\* COD submission whose rate-quote step already took the fallback path
\* (the session's cod_error flag was cleared).
C25_NoCreateAfterFallback ==
  (last.case = "flow_cod" /\ ~Get(orderSessions[last.key], "cod_error", TRUE))
    => CallsTo(last.calls, "create") = {}

\* C26: once a session's payment status is paid it stays paid: a later
\* failed, cancelled or expired payments-webhook delivery that resolves to
\* the same session does not change its payment status.
C26_PaidStaysPaid ==
  [][ \A k \in DOMAIN orderSessions :
        (Get(orderSessions[k], "payment_status", "") = "paid" /\ last'.op = "payment")
          => Get(orderSessions'[k], "payment_status", "") = "paid" ]_vars

\* the rate-quote outcomes with no usable total_amount: the call throws, the
\* body is empty or absent, or its first element lacks total_amount
NoUsableTotal == {"throw", "empty", "noelem", "nofield"}

\* C27: in the COD branch every rate-quote outcome that yields no usable
\* total_amount takes one and the same fallback path: zero shipping is added
\* and the session is flagged (cod_error cleared) so that the order is not
\* persisted.
C27_OneFallbackPath ==
  (last.case = "flow_cod" /\ last.quote \in NoUsableTotal)
    => /\ Get(orderSessions[last.key], "shipping_charge", NaN) = 0
       /\ ~Get(orderSessions[last.key], "cod_error", TRUE)
       /\ last.rows = <<>>

---------------------------------------------------------------------------
(* Properties of the amounts (SpecReorder). *)

\* the keys of the phone-keyed pending selections, and of the sessions
PendingKeys == {k \in DOMAIN orderSessions : "orderId" \notin DOMAIN orderSessions[k]}
SessionKeys == {k \in DOMAIN orderSessions : "orderId" \in DOMAIN orderSessions[k]}

\* the product subtotal of a stored record: the total of its product items
Subtotal(rec) == OrderTotal(Get(rec, "productItems", <<>>))

\* the amounts that hold the COD fee once and one shipping charge once
WithFeeAndShippingOnce(sub) ==
  {Add(Add(sub, codChargePaise), CodQuote(q).ship) : q \in QuoteOutcomes}

\* C28: after any sequence of events each session's amount contains the COD
\* fee at most once and a shipping charge at most once (it is the product
\* subtotal, or the subtotal plus one fee and one quoted charge), and the
\* phone-keyed pending selection's amount contains neither: a repeated
\* delivery-details submission from the same phone starts its new session
\* from the bare product subtotal.
C28_FeeAndShippingOnce ==
  /\ \A k \in PendingKeys : Get(orderSessions[k], "amount", 0) = Subtotal(orderSessions[k])
  /\ \A k \in SessionKeys :
        LET s == orderSessions[k]
        IN  IF Get(s, "payment_mode", "") = "COD"
            THEN s.amount \in WithFeeAndShippingOnce(Subtotal(s))
            ELSE s.amount = Subtotal(s)

\* a phone's second submission, COD after COD, over a pending selection
C28_Witness ==
  /\ last.case = "flow_cod"
  /\ nSubmissions = 2
  /\ \E p \in DOMAIN phoneToOrderIds :
        /\ Len(phoneToOrderIds[p]) = 2
        /\ phoneToOrderIds[p][1] # phoneToOrderIds[p][2]
        /\ p \in PendingKeys
        /\ Subtotal(orderSessions[p]) > 0
        /\ \A i \in 1..2 :
              /\ orderSessions[phoneToOrderIds[p][i]].payment_mode = "COD"
              /\ orderSessions[phoneToOrderIds[p][i]].amount
                    = Subtotal(orderSessions[p]) + codChargePaise
                        + MathRound(Times100(QuotedTotal))

---------------------------------------------------------------------------
(* Frame of the order finalizer (SpecPay). *)

\* the fields of a session the finalizer writes
FinalizerWrites == {"payment_status", "shipping_charge"}

\* C29: running the order finalizer on a session changes only that
\* session's payment status and shipping charge: its amount, payment mode,
\* product items, customer and orderId (every other field) are the same
\* before and after, whatever the rate-quote and shipment-creation calls
\* return.
C29_FinalizerFrame ==
  [][ last'.finalizer = 1 =>
        /\ DOMAIN orderSessions'[last'.key] \ FinalizerWrites
              = DOMAIN orderSessions[last'.key] \ FinalizerWrites
        /\ \A f \in DOMAIN orderSessions[last'.key] \ FinalizerWrites :
              orderSessions'[last'.key][f] = orderSessions[last'.key][f] ]_vars

\* the finalizer has run with a quoted charge on a Prepaid session
C29_Witness ==
  /\ last.finalizer = 1
  /\ last.quote = "num"
  /\ orderSessions[last.key].payment_mode = "Prepaid"
  /\ orderSessions[last.key].payment_status = "paid"
  /\ orderSessions[last.key].shipping_charge = MathRound(Times100(QuotedTotal))
  /\ orderSessions[last.key].amount # NaN

---------------------------------------------------------------------------
(* The Prepaid branch's amounts (SpecSubmit). *)

\* The shipping the review-and-pay total includes according to C30: the
\* Pre-paid quote in paise, or 0 when the quote fails
ClaimedPrepaidShipping(q) ==
  IF q = "num" THEN MathRound(Times100(QuotedTotal)) ELSE 0

\* C30: for every Prepaid delivery-details submission the created session's
\* amount stays equal to the phone's pending product subtotal (no COD fee and
\* no shipping added), while the total shown in the review-and-pay prompt
\* equals that amount plus the Pre-paid rate quote in paise, or plus 0 when
\* the quote fails.
C30_PrepaidAmountAndTotal ==
  last.case = "flow_prepaid" =>
    /\ orderSessions[last.key].amount = PendingSubtotal
    /\ \A i \in MsgsWithBody(last.msgs, "order_details") :
          last.msgs[i].arg =
            Add(orderSessions[last.key].amount, ClaimedPrepaidShipping(last.quote))

---------------------------------------------------------------------------
(* Frame of the product items and of the conversation index. *)

\* C31: after a session is created under an orderId its product items never
\* change: a later catalog order replaces only the phone-keyed pending
\* selection, and no other event writes the product items of any stored
\* record.
C31_ProductItemsFrame ==
  [][ \A k \in DOMAIN orderSessions :
        (k \in SessionKeys \/ last'.case # "order")
          => /\ k \in DOMAIN orderSessions'
             /\ Get(orderSessions'[k], "productItems", <<>>)
                   = Get(orderSessions[k], "productItems", <<>>) ]_vars

\* the run stored a delivery-details submission
StoredCases == {"flow_cod", "flow_prepaid"}

\* C32: the conversation index of a phone changes only by appending: each
\* accepted delivery-details submission from phone p appends exactly one
\* orderId to the end of p's list, no other event removes or reorders
\* entries of any list, and the last element is the orderId of p's most
\* recently created session.
C32_IndexAppendOnly ==
  [][ /\ DOMAIN phoneToOrderIds \subseteq DOMAIN phoneToOrderIds'
      /\ \A p \in DOMAIN phoneToOrderIds' :
            IF last'.case \in StoredCases /\ p = normalizePhoneAt[last'.msg.from]
            THEN /\ phoneToOrderIds'[p]
                      = Append(Get(phoneToOrderIds, p, <<>>), last'.key)
                 /\ last'.key \in DOMAIN orderSessions'
                 /\ orderSessions'[last'.key].orderId = last'.key
                 /\ orderSessions'[last'.key].phone = p
                 /\ orderSessions'[last'.key].customer = last'.msg.data
            ELSE phoneToOrderIds'[p] = Get(phoneToOrderIds, p, <<>>) ]_vars

\* a phone's second submission has been appended after its first
C32_Witness ==
  /\ last.case \in StoredCases
  /\ \E p \in DOMAIN phoneToOrderIds :
        /\ p = normalizePhoneAt[last.msg.from]
        /\ Len(phoneToOrderIds[p]) = 2
        /\ phoneToOrderIds[p][1] # phoneToOrderIds[p][2]
        /\ phoneToOrderIds[p][2] = last.key

\* C33: every orderId listed in the conversation index under phone p is a
\* key of the session store, and the session stored under it has phone p and
\* that same orderId.
C33_IndexedSessions ==
  \A p \in DOMAIN phoneToOrderIds :
    \A i \in 1..Len(phoneToOrderIds[p]) :
      /\ phoneToOrderIds[p][i] \in DOMAIN orderSessions
      /\ Get(orderSessions[phoneToOrderIds[p][i]], "phone", "") = p
      /\ Get(orderSessions[phoneToOrderIds[p][i]], "orderId", "") = phoneToOrderIds[p][i]

---------------------------------------------------------------------------
(* The reminder is eventually sent (SpecRaceFair). *)

\* the callback of phone p has sent its reminder and added p to the reminded
\* set in the last step
ReminderDone(p) ==
  last.op = "timer" /\ last.key = p /\ last.case = "reminder_sent" /\ p \in remindedUsers

---------------------------------------------------------------------------
(* Completion and the contacts store (SpecChat). *)

\* C35: whenever a phone is in the completed set, a contact row with that
\* phone's name, email and number has been appended to the contacts store:
\* the step that completes a phone is one whose contacts append succeeded,
\* and a failed append leaves the phone in reminded, not in completed.
C35_CompletedHasContact ==
  [][\A p \in Phones :
       /\ (p \in completedUsers' /\ p \notin completedUsers) =>
             /\ Len(last'.contacts) = 1
             /\ last'.contacts[1][4] = p
             /\ last'.send = "ok"
       /\ (last'.send = "throw" /\ last'.contacts # <<>> /\ p \in remindedUsers) =>
             (p \in remindedUsers' /\ p \notin completedUsers')]_vars

---------------------------------------------------------------------------
(* The intent table (SpecIntent). *)

\* the lower-cased, trimmed text equals a table phrase or contains one
ContainsPhrase(b) ==
  \E i \in IntentIndices : includes(trim(toLowerCase(b)), intentBasedQA[i].key)
ContainsPhraseAt == [b \in Bodies |-> ContainsPhrase(b)]

\* C36: a message receives a canned intent-table reply only if its
\* lower-cased, trimmed text equals a table phrase or contains a table phrase
\* as a substring; every other message (an empty body such as a non-text
\* message, a fragment of a phrase, unrelated text) receives no intent-table
\* reply and is left to the later dispatcher cases.
C36_IntentOnlyOnPhrase ==
  (last.op = "message" /\ last.case = "intent") => ContainsPhraseAt[MsgBodyAt[last.msg]]

---------------------------------------------------------------------------
(* The test-harness submission (SpecSubmit). *)

\* the message is a delivery-details submission with the test-harness token
IsTestSubmission(msg) ==
  msg.itype = "nfm_reply" /\ Get(msg.data, "flow_token", "") = "test_101"

\* C37: a delivery-details submission carrying the test-harness flow token
\* generates no orderId, creates no session, leaves the contents of the
\* session store and of every conversation-index list unchanged, sends no
\* message and no gateway request, and is acknowledged with 200.
C37_TestTokenNoOp ==
  [][ (last'.op = "message" /\ IsTestSubmission(last'.msg)) =>
        /\ last'.case = "flow_test"
        /\ last'.key = ""
        /\ nSubmissions' = nSubmissions
        /\ orderSessions' = orderSessions
        /\ \A p \in DOMAIN phoneToOrderIds \cup DOMAIN phoneToOrderIds' :
              Get(phoneToOrderIds', p, <<>>) = Get(phoneToOrderIds, p, <<>>)
        /\ last'.msgs = <<>> /\ last'.calls = <<>> /\ last'.rows = <<>>
        /\ last'.contacts = <<>>
        /\ last'.resp = 200 ]_vars

\* a test-token submission from a phone that has a pending selection and a
\* stored session
C37_Witness ==
  /\ last.op = "message" /\ IsTestSubmission(last.msg) /\ last.case = "flow_test"
  /\ normalizePhoneAt[last.msg.from] \in PendingKeys
  /\ Len(Get(phoneToOrderIds, normalizePhoneAt[last.msg.from], <<>>)) = 1
  /\ SessionKeys # {}

---------------------------------------------------------------------------
(* The main menu (SpecChat). *)

\* the tests of lines 1524, 1536 and 1561: a main-menu or a greeting request
IsMenuRequest(msg) ==
  MsgBodyAt[msg] \in {"main menu", "Main Menu", "hi", "hello", "hey"}

\* C38: handling a main-menu or greeting request leaves every session, every
\* conversation-index list and the reminded and completed sets unchanged,
\* and sends the same menu payload (the main-menu list, addressed to the
\* sender) on every repetition whatever the sender's state is.
C38_MenuIsStateless ==
  [][ (last'.op = "message" /\ IsMenuRequest(last'.msg)) =>
        /\ orderSessions' = orderSessions
        /\ \A p \in DOMAIN phoneToOrderIds \cup DOMAIN phoneToOrderIds' :
              Get(phoneToOrderIds', p, <<>>) = Get(phoneToOrderIds, p, <<>>)
        /\ remindedUsers' = remindedUsers
        /\ completedUsers' = completedUsers
        /\ {i \in 1..Len(last'.msgs) : last'.msgs[i].type = "list"} = {1}
        /\ last'.msgs[1]
              = Interactive(normalizePhoneAt[last'.msg.from], "list", "main_menu")
        /\ last'.resp = 200 ]_vars

\* a reminded phone with a pending selection has asked for the menu
C38_Witness ==
  /\ last.op = "message" /\ IsMenuRequest(last.msg)
  /\ LastFrom \in remindedUsers
  /\ LastFrom \in PendingKeys
  /\ last.msgs[1] = Interactive(LastFrom, "list", "main_menu")

---------------------------------------------------------------------------
(* Validation in the shipping router (SpecShip). *)

\* the request of the last run has a pincode that is not exactly six decimal
\* digits, or lacks a required field
CalcInvalid ==
  \/ last.msg.empty
  \/ last.msg.pincode = "" \/ last.msg.weight = 0
  \/ ~IsPincode(last.msg.pincode)
CreateInvalid ==
  \/ last.msg.empty \/ ~last.msg.data \/ ~last.msg.pickup
  \/ \E f \in RequiredFields : last.msg.shipmentData[f] = ""
  \/ ~IsPincode(last.msg.shipmentData.pin)

\* C39: in the calculate-shipping and create-shipment handlers a request
\* whose pincode is not exactly six decimal digits, or that lacks a required
\* field, is answered with a 4xx status and causes no request to the
\* shipping provider.
C39_InvalidRejected ==
  /\ (last.op = "calculate-shipping" /\ CalcInvalid)
        => (last.resp \in 400..499 /\ last.calls = <<>>)
  /\ (last.op = "create-shipment" /\ CreateInvalid)
        => (last.resp \in 400..499 /\ last.calls = <<>>)

---------------------------------------------------------------------------
(* Signature verification in the payment router (SpecRazorpay). *)

\* the HMAC-SHA256 of "order_id|payment_id" of the last request under the key
\* secret
ExpectedSignature ==
  HmacHex(RAZORPAY_KEY_SECRET,
          last.msg.razorpay_order_id \o "|" \o last.msg.razorpay_payment_id)

\* the last request reached the signature test with a signature supplied:
\* the service is configured and the three parameters are present
SignatureSupplied ==
  /\ last.op = "verify-payment"
  /\ last.hook.razorpay /\ last.hook.secret # ""
  /\ ~last.msg.empty
  /\ last.msg.razorpay_order_id # "" /\ last.msg.razorpay_payment_id # ""
  /\ last.msg.razorpay_signature # ""

\* C40: the verify-payment handler answers verified:true only when the
\* supplied signature equals the HMAC-SHA256 of "order_id|payment_id" under
\* the key secret, and answers 400 with verified:false for every supplied
\* signature that differs from it, whatever its length.
C40_SignatureVerified ==
  /\ (last.op = "verify-payment" /\ last.body = "verified:true")
        => (SignatureSupplied /\ last.msg.razorpay_signature = ExpectedSignature)
  /\ (SignatureSupplied /\ last.msg.razorpay_signature # ExpectedSignature)
        => (last.resp = 400 /\ last.body = "verified:false")

===========================================================================
